---- MODULE Spec2Model ----
(***************************************************************************)
(* Session proxy and capability-token gateway of the Sandstorm shell       *)
(* (shell/server/proxy.js): token validation, the two proxy caches, the    *)
(* revocation watcher and the Proxy state machine.                         *)
(*                                                                         *)
(* Every Mongo call made inside a fiber (findOne, update, insert, remove)  *)
(* is a point where the fiber yields, so a handler is modelled as the      *)
(* sequence of its atomic steps between yields; each request slot keeps    *)
(* the handler's position in req[r].pc.                                    *)
(***************************************************************************)
EXTENDS Integers, Sequences, FiniteSets, TLC

(* ------------------------------ bounds -------------------------------- *)
\* number of clock advances in a behaviour
MaxTicks == 1
\* number of Proxy objects constructed by the gateway in a behaviour
MaxProxies == 2
\* number of mutations of ApiTokens and Grains documents (revoke, role change,
\* removal)
MaxChanges == 1
\* number of Proxy objects constructed directly (with arbitrary arguments)
\* when the Proxy class is exercised on its own
MaxBuilt == 1
\* number of WebSocket registrations on one Proxy (its websocketCounter)
MaxSockets == 2
\* messages written to one client socket
MaxWritten == 4

(* ------------------------- program constants -------------------------- *)
TIMEOUT_MS == 180000
SESSION_PROXY_TIMEOUT == 60000

\* The clock advances in steps of Quantum milliseconds: long enough for an
\* idle session to time out and for a restore wait to give up.
Quantum == TIMEOUT_MS + SESSION_PROXY_TIMEOUT
MaxTime == MaxTicks * Quantum
\* The finer clock of the session garbage collector: half an idle window.
MaxShortTicks == 4
HalfWindow == TIMEOUT_MS \div 2

(* ------------------------------ values -------------------------------- *)
NULL == "null"
\* a Date field that is null / undefined
NoDate == 0 - 1
\* JavaScript truthiness of a string-or-null value
Truthy(x) == x # NULL /\ x # ""

Tokens == {"t1", "t2", "t3"}
\* the tokens presented as bearer tokens to API hosts
ApiSideTokens == {"t1", "t2"}
\* the tokens whose expiresIfUnused keep-alive requests refresh
KeepaliveTokens == {"t1"}
\* the tokens redeemed by openSessionFromApiToken
HostSideTokens == {"t2", "t3"}
Params == {"p1"}
Hosts == {"h1"}
Reqs == {"r1", "r2"}
Identities == {"i1"}
KeepaliveDurations == {Quantum}
\* arguments handed to the Proxy constructor
SessionIdArgs == {NULL, "", "s1"}
HostIdArgs == {NULL, "", "h1"}
\* how a call to the grain's backend ends: it answers, or it raises an error
\* of this kjType
BackendOutcomes == {"ok", "disconnected", "failed"}
ProxyIds == 1..MaxProxies

\* proxiesByHostId[h]: key not in the table / key present with value null
NoKey == 0 - 1
NullProxy == 0

(* --------------------------- ApiTokens docs --------------------------- *)
\* The token documents of the store at startup.  t1 is a webkey with an
\* idle expiry; t2 is a webkey derived from t1 that expires; t3 is derived
\* from t1 and owned by identity i1 (owner.user).
InitialTokens ==
  [t \in Tokens |->
     [exists |-> TRUE, revoked |-> FALSE,
      owner |-> IF t = "t3" THEN "user" ELSE "webkey",
      ownerIdentity |-> IF t = "t3" THEN "i1" ELSE NULL,
      expires |-> IF t = "t2" THEN Quantum ELSE NoDate,
      expiresIfUnused |-> IF t = "t1" THEN Quantum ELSE NoDate,
      objectId |-> FALSE, frontendRef |-> FALSE,
      parentToken |-> IF t = "t1" THEN NULL ELSE "t1"]]

\* What ApiTokens.findOne returns for an id with no document.
MissingToken ==
  [exists |-> FALSE, revoked |-> FALSE,
   owner |-> "none", ownerIdentity |-> NULL,
   expires |-> NoDate, expiresIfUnused |-> NoDate,
   objectId |-> FALSE, frontendRef |-> FALSE, parentToken |-> NULL]

(* --------------------------- validateWebkey --------------------------- *)
Ok == [code |-> 200, reason |-> "ok"]
MeteorError(code, reason) == [code |-> code, reason |-> reason]

\* validateWebkey with the expires test moved ahead of the revoked test
validateWebkeyExpiresFirst(apiToken, refreshedExpiration, t) ==
  IF ~apiToken.exists
  THEN [error |-> MeteorError(403, "Invalid authorization token"),
        check |-> "missing", update |-> "none"]
  ELSE IF apiToken.expires # NoDate /\ apiToken.expires <= t
  THEN [error |-> MeteorError(403, "Authorization token expired"),
        check |-> "expires", update |-> "none"]
  ELSE IF apiToken.revoked
  THEN [error |-> MeteorError(403, "Authorization token has been revoked"),
        check |-> "revoked", update |-> "none"]
  ELSE IF apiToken.owner # "none" /\ apiToken.owner # "webkey"
  THEN [error |-> MeteorError(403, "Unauthorized to open non-webkey token."),
        check |-> "owner", update |-> "none"]
  ELSE IF apiToken.expiresIfUnused # NoDate /\ apiToken.expiresIfUnused <= t
  THEN [error |-> MeteorError(403, "Authorization token expired"),
        check |-> "expiresIfUnused", update |-> "none"]
  ELSE LET upd == IF apiToken.expiresIfUnused = NoDate THEN "none"
                  ELSE IF refreshedExpiration # NoDate THEN "refresh"
                  ELSE "clear"
       IN IF apiToken.objectId \/ apiToken.frontendRef
          THEN [error |-> MeteorError(403, "ApiToken refers to a non-webview Capability."),
                check |-> "object", update |-> upd]
          ELSE [error |-> Ok, check |-> "none", update |-> upd]

\* validateWebkey(apiToken, refreshedExpiration) evaluated at time t on the
\* document apiToken.  error is what it throws (Ok when it returns), check
\* names the check that threw and update is the ApiTokens.update it issued
\* before returning or throwing.
validateWebkey(apiToken, refreshedExpiration, t) ==
  IF ~apiToken.exists
  THEN [error |-> MeteorError(403, "Invalid authorization token"),
        check |-> "missing", update |-> "none"]
  ELSE IF apiToken.revoked
  THEN [error |-> MeteorError(403, "Authorization token has been revoked"),
        check |-> "revoked", update |-> "none"]
  ELSE IF apiToken.owner # "none" /\ apiToken.owner # "webkey"
  THEN [error |-> MeteorError(403, "Unauthorized to open non-webkey token."),
        check |-> "owner", update |-> "none"]
  ELSE IF apiToken.expires # NoDate /\ apiToken.expires <= t
  THEN [error |-> MeteorError(403, "Authorization token expired"),
        check |-> "expires", update |-> "none"]
  ELSE IF apiToken.expiresIfUnused # NoDate /\ apiToken.expiresIfUnused <= t
  THEN [error |-> MeteorError(403, "Authorization token expired"),
        check |-> "expiresIfUnused", update |-> "none"]
  ELSE LET upd == IF apiToken.expiresIfUnused = NoDate THEN "none"
                  ELSE IF refreshedExpiration # NoDate THEN "refresh"
                  ELSE "clear"
       IN IF apiToken.objectId \/ apiToken.frontendRef
          THEN [error |-> MeteorError(403, "ApiToken refers to a non-webview Capability."),
                check |-> "object", update |-> upd]
          ELSE [error |-> Ok, check |-> "none", update |-> upd]

(* ------------------------------- state -------------------------------- *)
VARIABLES
  now,              \* Date.now()
  ApiTokens,        \* the ApiTokens collection: token id -> document
  grainExists,      \* whether the grain's document is in Grains
  Sessions,         \* the Sessions collection, keyed by hostId
  proxiesByHostId,  \* hostId -> NoKey | NullProxy | proxy id
  newBucket,        \* apiSessionProxies.newBucket: <<token, params>> -> proxy id
  oldBucket,        \* apiSessionProxies.oldBucket
  proxies,          \* every Proxy object constructed so far, by id
  tokenEvents,      \* ApiTokens observer callbacks not yet delivered
  sessionEvents,    \* Sessions observer `removed` callbacks not yet delivered
  watcher,          \* position of the running clearSessionsAndProxies call
  req,              \* position and locals of each in-flight handler
  used,             \* tokens whose expiresIfUnused a first use has cleared
  changes,          \* number of token mutations so far
  backend           \* the backend connection and its health check

vars == <<now, ApiTokens, grainExists, Sessions, proxiesByHostId, newBucket,
          oldBucket, proxies, tokenEvents, sessionEvents, watcher, req, used,
          changes, backend>>

\* the capability handles obtained from the n-th backend connection
Connection(n) == <<"c1", "c2", "c3", "c4", "c5">>[n]
\* globalBackend.cap(): the connection installed in globalBackend
globalBackendCap == Connection(backend.connection)

(* --------------------------- wildcard hosts --------------------------- *)
\* Host names are sequences of characters over a small alphabet; IdChars are
\* the characters of [-a-z0-9].
MaxHostLen == 4
MaxIdLen == 2
Chars == {"a", "-", ".", ":"}
IdChars == {"a", "-"}
Strings(alphabet, n) == UNION {[1..k -> alphabet] : k \in 0..n}

Min(S) == CHOOSE x \in S : \A y \in S : x <= y
Max(S) == CHOOSE x \in S : \A y \in S : x >= y

\* str.split(sep)[0]
splitFirst(str, sep) ==
  LET at == {i \in 1..Len(str) : str[i] = sep} IN
  IF at = {} THEN str ELSE SubSeq(str, 1, Min(at) - 1)

\* str.indexOf(searchString, position): a position below 0 counts as 0;
\* indices are 0-based, -1 when not found
indexOf(str, searchString, position) ==
  LET start == Min({Max({position, 0}), Len(str)})
      found == {i \in start..(Len(str) - Len(searchString)) :
                  SubSeq(str, i + 1, i + Len(searchString)) = searchString}
  IN IF found = {} THEN -1 ELSE Min(found)

\* str.lastIndexOf(searchString, position)
lastIndexOf(str, searchString, position) ==
  LET start == Min({Max({position, 0}), Len(str) - Len(searchString)})
      found == {i \in 0..start :
                  SubSeq(str, i + 1, i + Len(searchString)) = searchString}
  IN IF found = {} THEN -1 ELSE Max(found)

\* str.slice(beginIndex, endIndex): a negative index counts from the end
slice(str, beginIndex, endIndex) ==
  LET from == IF beginIndex < 0 THEN Max({Len(str) + beginIndex, 0})
              ELSE Min({beginIndex, Len(str)})
      to == IF endIndex < 0 THEN Max({Len(str) + endIndex, 0})
            ELSE Min({endIndex, Len(str)})
  IN IF from >= to THEN <<>> ELSE SubSeq(str, from + 1, to)

\* Meteor.settings.public.wildcardHost.split("*"): the text before and the
\* text after the asterisk
WildcardHost(before, after) == <<before, after>>
WildcardHosts ==
  {WildcardHost(<<>>, <<".", "a">>), WildcardHost(<<"a">>, <<".", "a", ":", "a">>),
   WildcardHost(<<>>, <<"-", "a">>), WildcardHost(<<"a">>, <<>>)}

\* what matchWildcardHost returns: null, or the id
NullId == [found |-> FALSE, id |-> <<>>]
Id(id) == [found |-> TRUE, id |-> id]

\* matchWildcardHost(host)
matchWildcardHost(wildcardHost, host) ==
  LET prefix == wildcardHost[1]
      suffix == splitFirst(wildcardHost[2], ":")
      hostSansPort == splitFirst(host, ":")
  IN IF /\ lastIndexOf(hostSansPort, prefix, 0) >= 0
        /\ indexOf(hostSansPort, suffix, 0 - Len(suffix)) >= 0
        /\ Len(hostSansPort) >= Len(prefix) + Len(suffix)
     THEN LET id == slice(hostSansPort, Len(prefix), 0 - Len(suffix)) IN
          IF \A i \in 1..Len(id) : id[i] \in IdChars THEN Id(id) ELSE NullId
     ELSE NullId

\* makeWildcardHost(id)
makeWildcardHost(wildcardHost, id) == wildcardHost[1] \o id \o wildcardHost[2]

(* ------------------------------ requests ------------------------------ *)
\* The Cookie header of a request, already split at ';' and '=' with the key
\* trimmed: a sequence of [key, value].
Cookie(key, value) == [key |-> key, value |-> value]
SessionCookies == {Cookie("sandstorm-sid", v) : v \in {"", "h1", "x"}}
CookieHeaders ==
  {<<>>} \cup {<<c>> : c \in SessionCookies}
         \cup {<<c, d>> : c \in SessionCookies, d \in SessionCookies}

\* query.path of /_sandstorm-init, as a sequence of characters
Paths == {<<>>, <<"/", "a">>, <<"/", "/", "a">>, <<"a">>}
\* Url.parse(request.url, true): pathname, query.sessionid, query.path
Url(pathname, sessionid, path) ==
  [pathname |-> pathname, sessionid |-> sessionid, path |-> path]
RootUrl == Url("/", NULL, <<>>)
InitUrls == {Url("/_sandstorm-init", sid, path) : sid \in {"h1", "x"}, path \in Paths}

\* request.headers["content-length"] is undefined
NoContentLength == 0 - 1
\* request.headers.authorization: the text up to the first blank as it was
\* sent (scheme), the trimmed rest when it is read as a bearer token
\* (token), and the rest decoded from base64 and split at ":" (parts)
Authorization(scheme, token, parts) ==
  [scheme |-> scheme, token |-> token, parts |-> parts]
\* no Authorization header
NoAuthorization == Authorization(NULL, NULL, <<>>)
\* an incoming request: kind is "request" (a GET), "streaming" (a POST with
\* no Content-Length) or "upgrade" (a WebSocket upgrade with its key)
Request(kind, cookies, url) ==
  [kind |-> kind, cookies |-> cookies, url |-> url,
   method |-> IF kind = "streaming" THEN "POST" ELSE "GET",
   contentLength |-> NoContentLength,
   secWebSocketKey |-> (kind = "upgrade"),
   requestedMethod |-> NULL, requestedHeaders |-> NULL,
   authorization |-> NoAuthorization, origin |-> FALSE, hostId |-> <<>>]
NoRequest == Request("none", <<>>, RootUrl)
HttpRequests ==
  {Request(k, c, u) : k \in {"request", "streaming"}, c \in CookieHeaders,
                      u \in {RootUrl} \cup InitUrls}
UpgradeRequests == {Request("upgrade", c, RootUrl) : c \in CookieHeaders}

\* the request methods handleRequest has a session call for
Methods ==
  {"GET", "HEAD", "POST", "PUT", "PATCH", "DELETE", "PROPFIND", "PROPPATCH", "MKCOL",
   "COPY", "MOVE", "LOCK", "UNLOCK", "ACL", "REPORT", "OPTIONS"}

\* the test of requestHandler that sends a request to handleRequestStreaming
useStreaming(request) ==
  /\ request.method = "POST" \/ request.method = "PUT"
  /\ request.contentLength = NoContentLength \/ request.contentLength > 1024 * 1024

\* a test that never finds the key missing
hasWebSocketKeyAlways(request) == TRUE

\* 'sec-websocket-key' in request.headers
hasWebSocketKey(request) == request.secWebSocketKey

\* what the application sends to the client before it answers openWebSocket
AppMessages == {<<>>, <<"m1">>, <<"m1", "m2">>}

\* A WebSocketReceiver together with its socket: queue is this.queue,
\* flowing says that this.queue is null, written is what socket.write has
\* put on the client socket so far.
WebSocketReceiver(written) == [queue |-> <<>>, flowing |-> FALSE, written |-> written]

\* a sendBytes that writes without looking at the queue
sendBytesUnqueued(receiver, message) ==
  [receiver EXCEPT !.written = Append(@, message)]

\* WebSocketReceiver.sendBytes(message)
sendBytes(receiver, message) ==
  IF receiver.flowing
  THEN [receiver EXCEPT !.written = Append(@, message)]
  ELSE [receiver EXCEPT !.queue = Append(@, message)]

RECURSIVE sendAll(_, _, _)
\* the calls sendBytes(messages[i]), sendBytes(messages[i + 1]), ...
sendAll(receiver, messages, i) ==
  IF i > Len(messages) THEN receiver
  ELSE sendAll(sendBytes(receiver, messages[i]), messages, i + 1)

\* socket.write(headers.join('\r\n')) followed by WebSocketReceiver.go()
switchProtocols(receiver) ==
  [queue |-> <<>>, flowing |-> TRUE,
   written |-> Append(receiver.written, "101 Switching Protocols") \o receiver.queue]

\* rpcResponse.setCookies: the cookies the app asks to set
AppCookie(name, value) == [name |-> name, value |-> value]
AppSetCookies == {<<>>, <<AppCookie("app", "v")>>, <<AppCookie("sandstorm-sid", "v")>>}

RECURSIVE parseCookiesFrom(_, _, _)
\* the loop of parseCookies from the i-th cookie on; error: it threw
\* 'Multiple sandstorm session IDs?'
parseCookiesFrom(reqCookies, i, result) ==
  IF i > Len(reqCookies) THEN result
  ELSE LET cookie == reqCookies[i] IN
       IF cookie.key = "sandstorm-sid"
       THEN IF Truthy(result.sessionId)
            THEN [result EXCEPT !.error = TRUE]
            ELSE parseCookiesFrom(reqCookies, i + 1, [result EXCEPT !.sessionId = cookie.value])
       ELSE parseCookiesFrom(reqCookies, i + 1, [result EXCEPT !.cookies = Append(@, cookie)])

\* parseCookies(request)
parseCookies(request) ==
  parseCookiesFrom(request.cookies, 1, [sessionId |-> NULL, cookies |-> <<>>, error |-> FALSE])

\* what the catch of requestHandler answers for an error that is no Meteor.Error
InternalServerError == [code |-> 500, reason |-> "Internal Server Error"]
Unauthorized == [code |-> 403, reason |-> "Unauthorized"]
NoError == [code |-> 200, reason |-> "OK"]

\* Proxy.makeContext(request, response): the error it throws, NoError if none
makeContext(proxy, request) ==
  IF Truthy(proxy.hostId)
  THEN LET parseResult == parseCookies(request) IN
       IF parseResult.error THEN InternalServerError
       ELSE IF ~Truthy(parseResult.sessionId) \/ parseResult.sessionId # proxy.sessionId
       THEN Unauthorized
       ELSE NoError
  ELSE NoError

\* path starts with prefix (path.lastIndexOf(prefix, 0) === 0)
StartsWith(path, prefix) ==
  Len(path) >= Len(prefix) /\ SubSeq(path, 1, Len(prefix)) = prefix

\* makeSetCookieHeader(cookie), without the attributes after the value
makeSetCookieHeader(cookie) == <<cookie.name, "=", cookie.value>>

\* Proxy.doSessionInit(request, response, requestPath): the status line and
\* the Set-Cookie headers of the response
doSessionInit(proxy, requestPath) ==
  LET path == IF requestPath = <<>> THEN <<"/">> ELSE requestPath IN
  IF ~StartsWith(path, <<"/">>) \/ StartsWith(path, <<"/", "/">>)
  THEN [result |-> [code |-> 400, reason |-> "Invalid path supplied"], setCookie |-> <<>>]
  ELSE [result |-> [code |-> 303, reason |-> "See Other"],
        setCookie |-> <<makeSetCookieHeader(AppCookie("sandstorm-sid", proxy.sessionId))>>]

\* the Set-Cookie headers translateResponse puts on the response
translateResponse(proxy, setCookies) ==
  IF Truthy(proxy.hostId) /\ Len(setCookies) > 0
  THEN [i \in 1..Len(setCookies) |-> makeSetCookieHeader(setCookies[i])]
  ELSE <<>>

(* ------------------------------- Proxy -------------------------------- *)
\* the argument check without its "API proxy shouldn't have sessionId" test
ProxyConstructorNoApiTest(sessionId, hostId, isApi) ==
  IF Truthy(sessionId)
  THEN ~Truthy(hostId)
  ELSE (~isApi) \/ Truthy(hostId)

\* The constructor's argument check: TRUE when `new Proxy(...)` throws.
ProxyConstructorThrows(sessionId, hostId, isApi) ==
  IF Truthy(sessionId)
  THEN (~Truthy(hostId)) \/ isApi
  ELSE (~isApi) \/ Truthy(hostId)

\* The object `new Proxy(grainId, ownerId, sessionId, hostId, identityId,
\* isApi, supervisor)` builds when it does not throw.  apiToken and expires
\* are the fields the callers attach afterwards; closed records that close()
\* has been called on the object, closedSockets the sockets handed to its
\* handleWebSocket that have emitted "close".
NewProxy(sessionId, hostId, identityId, isApi, supervisor) ==
  [sessionId |-> sessionId,
   hostId |-> IF Truthy(sessionId) THEN hostId ELSE NULL,
   identityId |-> identityId,
   isApi |-> isApi,
   supervisor |-> supervisor,
   uiView |-> NULL,
   session |-> NULL,
   hasLoaded |-> FALSE,
   websockets |-> {},
   websocketCounter |-> 0,
   closedSockets |-> {},
   apiToken |-> NULL,
   expires |-> NoDate,
   closed |-> FALSE]

\* Proxy.getConnection()
getConnection(proxy) ==
  [proxy EXCEPT !.supervisor = IF @ = NULL THEN globalBackendCap ELSE @,
                !.uiView = "uiView"]

\* Proxy.getSession(request)
getSession(proxy) ==
  IF proxy.session = NULL
  THEN [getConnection(proxy) EXCEPT !.session = "session"]
  ELSE proxy

\* Proxy.resetConnection()
resetConnection(proxy) ==
  [proxy EXCEPT !.session = NULL, !.uiView = NULL, !.supervisor = NULL]

\* Proxy.setHasLoaded()
setHasLoaded(proxy) == [proxy EXCEPT !.hasLoaded = TRUE]

\* SandstormBackend.shouldRestartGrain(error, retryCount): the error is a
\* disconnect and the request has not been retried yet
shouldRestartGrain(error, retryCount) ==
  error = "disconnected" /\ retryCount < 1

\* a replay that passes its own retryCount on
ReplaySameRetryCount(retryCount) == retryCount

\* the retryCount handleRequest passes to its replay
ReplayRetryCount(retryCount) == retryCount + 1


\* the handles one call of Proxy.close() closes: session, uiView, supervisor
HandlesClosed(proxy) ==
  {f \in {"session", "uiView", "supervisor"} : proxy[f] # NULL}

\* how many times one call of Proxy.close() calls destroy() on socket s:
\* once per entry of this.websockets that holds it
Destroys(proxy, s) == Cardinality({w \in proxy.websockets : w.socket = s})

\* Proxy.close()
Close(proxy) ==
  [proxy EXCEPT !.websockets = {}, !.session = NULL, !.uiView = NULL,
                !.supervisor = NULL, !.closed = TRUE]

\* close() called on every proxy whose id is in ids
CloseAll(ps, ids) ==
  [i \in DOMAIN ps |-> IF i \in ids THEN Close(ps[i]) ELSE ps[i]]

(* -------------------------- ApiSessionProxies -------------------------- *)
Keys == Tokens \X Params
EmptyBucket == [k \in Keys |-> NullProxy]

\* ApiSessionProxies.put
Put(bucket, hashedToken, hashedParams, proxy) ==
  [bucket EXCEPT ![<<hashedToken, hashedParams>>] = proxy]

\* a get that returns an old-bucket entry without moving it
GetWithoutPromotion(nb, ob, hashedToken, hashedParams) ==
  LET k == <<hashedToken, hashedParams>> IN
  IF nb[k] # NullProxy
  THEN [proxy |-> nb[k], newBucket |-> nb, oldBucket |-> ob]
  ELSE [proxy |-> ob[k], newBucket |-> nb, oldBucket |-> ob]

\* ApiSessionProxies.get: the value returned, and both buckets afterwards
Get(nb, ob, hashedToken, hashedParams) ==
  LET k == <<hashedToken, hashedParams>> IN
  IF nb[k] # NullProxy
  THEN [proxy |-> nb[k], newBucket |-> nb, oldBucket |-> ob]
  ELSE IF ob[k] # NullProxy
  THEN [proxy |-> ob[k],
        newBucket |-> Put(nb, hashedToken, hashedParams, ob[k]),
        oldBucket |-> [ob EXCEPT ![k] = NullProxy]]
  ELSE [proxy |-> NullProxy, newBucket |-> nb, oldBucket |-> ob]

\* the proxies ApiSessionProxies.removeProxiesOfToken closes for the tokens ts
ProxiesOfTokens(nb, ob, ts) ==
  {nb[k] : k \in {kk \in Keys : kk[1] \in ts}} \cup
  {ob[k] : k \in {kk \in Keys : kk[1] \in ts}}

\* a bucket after removeProxiesOfToken ran for every token of ts
removeProxiesOfToken(bucket, ts) ==
  [k \in Keys |-> IF k[1] \in ts THEN NullProxy ELSE bucket[k]]

(* --------------------------- sharing graph ---------------------------- *)
RECURSIVE AncestorsValid(_, _)
\* every token on the parentToken chain starting at `parent` is present and
\* not revoked in the collection `tokens`
AncestorsValid(tokens, parent) ==
  IF parent = NULL THEN TRUE
  ELSE /\ tokens[parent].exists
       /\ ~tokens[parent].revoked
       /\ AncestorsValid(tokens, tokens[parent].parentToken)

\* SandstormPermissions.mayOpenGrain(db, { token: tokenInfo })
mayOpenGrainToken(tokens, tokenInfo) ==
  AncestorsValid(tokens, tokenInfo.parentToken)

\* SandstormPermissions.mayOpenGrain(db, { grain: { _id, identityId } })
mayOpenGrainIdentity(tokens, identityId) ==
  \E t \in Tokens :
    /\ tokens[t].exists
    /\ ~tokens[t].revoked
    /\ tokens[t].ownerIdentity = identityId
    /\ AncestorsValid(tokens, tokens[t].parentToken)

RECURSIVE DescendantsOf(_, _, _)
\* the tokens reached from the set `frontier` by following parentToken
\* backwards, at most n levels deep
DescendantsOf(tokens, frontier, n) ==
  IF n = 0 \/ frontier = {} THEN {}
  ELSE LET children == {c \in Tokens : tokens[c].exists /\ tokens[c].parentToken \in frontier}
       IN children \cup DescendantsOf(tokens, children, n - 1)

\* SandstormPermissions.downstreamTokens(db, { token: token })
downstreamTokens(tokens, token) ==
  DescendantsOf(tokens, {token}, Cardinality(Tokens))

(* ------------------------- request bookkeeping ------------------------ *)
\* Sessions.findOne finds nothing
NoSession ==
  [exists |-> FALSE, hashedToken |-> NULL, identityId |-> NULL, timestamp |-> 0,
   hasLoaded |-> FALSE]
\* The Sessions documents in the store when the shell starts: Sessions
\* outlives the process, proxiesByHostId does not.  h1 is a session that
\* an earlier run of the shell opened from the token t2; once it is removed
\* a client restores the host by opening a session again.
InitialSessions ==
  [h \in Hosts |-> IF h = "h1"
                   THEN [exists |-> TRUE, hashedToken |-> "t2", identityId |-> NULL,
                         timestamp |-> 0, hasLoaded |-> FALSE]
                   ELSE NoSession]

\* what tryProxyRequest does with a Proxy: proxy.requestHandler(req, res)
Dispatched == [code |-> 0, reason |-> "requestHandler"]
\* getProxyForHostId resolved undefined: not a session host
NoProxy == [code |-> 0, reason |-> "undefined"]
\* openSessionFromApiToken answered { redirectToGrain }
Redirect == [code |-> 0, reason |-> "redirectToGrain"]

\* the headers of a response: header name -> value, a value being the list of
\* tokens that the header joins with ", "
NoHeaders == [name \in {} |-> <<>>]
\* res.setHeader(name, value)
setHeader(headers, name, value) ==
  [n \in DOMAIN headers \cup {name} |-> IF n = name THEN value ELSE headers[n]]
\* _.contains(list, x)
contains(list, x) == \E i \in 1..Len(list) : list[i] = x

DefaultAllowMethods == <<"GET", "HEAD", "POST", "PUT", "PATCH", "DELETE">>

\* accessControlHeaders with the requested method added without the
\* _.contains test
accessControlHeadersAlways(requestedMethod, requestedHeaders) ==
  LET h0 == setHeader(setHeader(NoHeaders, "Access-Control-Allow-Methods",
                                DefaultAllowMethods),
                      "Access-Control-Max-Age", <<"3600">>)
      h1 == IF Truthy(requestedHeaders)
            THEN setHeader(h0, "Access-Control-Allow-Headers", <<requestedHeaders>>)
            ELSE h0
  IN IF Truthy(requestedMethod)
     THEN setHeader(h1, "Access-Control-Allow-Methods",
                    Append(h1["Access-Control-Allow-Methods"], requestedMethod))
     ELSE h1

\* the accessControlHeaders object tryProxyRequest builds for an OPTIONS
\* request on the API host
accessControlHeaders(requestedMethod, requestedHeaders) ==
  LET h0 == setHeader(setHeader(NoHeaders, "Access-Control-Allow-Methods",
                                DefaultAllowMethods),
                      "Access-Control-Max-Age", <<"3600">>)
      h1 == IF Truthy(requestedHeaders)
            THEN setHeader(h0, "Access-Control-Allow-Headers", <<requestedHeaders>>)
            ELSE h0
  IN IF Truthy(requestedMethod) /\ ~contains(DefaultAllowMethods, requestedMethod)
     THEN setHeader(h1, "Access-Control-Allow-Methods",
                    Append(h1["Access-Control-Allow-Methods"], requestedMethod))
     ELSE h1

\* the headers tryProxyRequest has set on the response of an API host when
\* it turns to the token
apiHostHeaders(method, requestedMethod, requestedHeaders) ==
  LET h == setHeader(NoHeaders, "Access-Control-Allow-Origin", <<"*">>)
      a == accessControlHeaders(requestedMethod, requestedHeaders)
  IN IF method = "OPTIONS"
     THEN [n \in DOMAIN h \cup DOMAIN a |-> IF n \in DOMAIN a THEN a[n] ELSE h[n]]
     ELSE h

\* process.env.ROOT_URL: scheme://host
RootUrls ==
  {[scheme |-> scheme, host |-> host] :
     scheme \in {"http", "https"}, host \in {<<"a">>, <<"a", ":", "a">>}}
\* Url.parse(urlStr): the protocol ends with its colon, the host has the port
UrlParse(urlStr) ==
  [protocol |-> urlStr.scheme \o ":", host |-> urlStr.host,
   href |-> <<urlStr.scheme, "://">> \o urlStr.host \o <<"/">>]

\* The policy translateResponse builds for a session-bound Proxy: the list
\* of directives it joins with " ; ", a directive being the list of words it
\* joins with " ", a word the list of the strings concatenated into it.
cspRule(ROOT_URL, grainHost) ==
  LET wsProtocol == IF ROOT_URL.protocol = "https" THEN "wss" ELSE "ws" IN
  << << <<"default-src">>, <<"'self'">>, <<wsProtocol, "://">> \o grainHost >>,
     << <<"script-src">>, <<"'self'">>, <<"'unsafe-inline'">>, <<"'unsafe-eval'">> >>,
     << <<"img-src">>, <<"data:">>, <<"'self'">> >>,
     << <<"style-src">>, <<"'self'">>, <<"'unsafe-inline'">> >>,
     << <<"frame-src">>, <<"'self'">>, ROOT_URL.host >>,
     << <<"sandbox">>, <<"allow-forms">>, <<"allow-scripts">> >>,
     << <<"referrer">>, <<"no-referrer">> >> >>

\* the policy of an API response: "default-src 'none'; sandbox"
apiCspRule == << << <<"default-src">>, <<"'none'">> >>, << <<"sandbox">> >> >>

\* the security headers translateResponse sets on a response; hostId is
\* empty for the Proxy of an API token
translateResponseHeaders(headers, hostId, wildcardHost, rootUrl) ==
  IF hostId # <<>>
  THEN LET ROOT_URL == UrlParse(rootUrl)
           rule == cspRule(ROOT_URL, makeWildcardHost(wildcardHost, hostId))
       IN setHeader(setHeader(setHeader(setHeader(headers,
            "Content-Security-Policy", rule),
            "X-Content-Security-Policy", rule),
            "X-Webkit-CSP", rule),
            "X-Frame-Options", << <<"allow-from">>, ROOT_URL.href >>)
  ELSE setHeader(setHeader(setHeader(setHeader(setHeader(headers,
            "Vary", << <<"Authorization">> >>),
            "Access-Control-Allow-Origin", << <<"*">> >>),
            "Content-Security-Policy", apiCspRule),
            "X-Content-Security-Policy", apiCspRule),
            "X-Webkit-CSP", apiCspRule)

IdleReq ==
  [kind |-> "idle", pc |-> "idle", token |-> NULL, params |-> NULL, host |-> NULL,
   identityId |-> NULL, isAlreadyOpened |-> FALSE, tokenInfo |-> MissingToken,
   refreshedExpiration |-> NoDate, verdict |-> validateWebkey(MissingToken, NoDate, 0),
   deadline |-> NoDate, proxy |-> NullProxy, result |-> Ok,
   sessionId |-> NULL, isApi |-> FALSE, retryCount |-> 0, outcomes |-> <<>>,
   socket |-> NoKey, stale |-> FALSE, receiver |-> WebSocketReceiver(<<>>),
   sent |-> <<>>,
   call |-> "none", upload |-> FALSE, responseStream |-> "none", clientClosed |-> FALSE,
   waited |-> FALSE, timer |-> FALSE, observer |-> FALSE,
   request |-> NoRequest, init |-> FALSE, setCookie |-> <<>>, touched |-> FALSE,
   wildcardHost |-> WildcardHost(<<>>, <<>>), hostname |-> <<>>, id |-> NullId,
   headers |-> NoHeaders, rootUrl |-> NULL,
   fromCache |-> FALSE, promoted |-> FALSE, expiredWhenServed |-> FALSE, afterWatch |-> FALSE,
   afterUse |-> FALSE, cleared |-> FALSE]

\* the expires time of the token document (if any) has passed at time t
TokenExpired(token, t) ==
  /\ token # NULL
  /\ InitialTokens[token].expires # NoDate
  /\ InitialTokens[token].expires <= t

\* the handler q ends with `result`; its locals are dropped
Finish(q, result) ==
  [IdleReq EXCEPT !.kind = q.kind, !.pc = "done", !.token = q.token, !.host = q.host,
                  !.proxy = q.proxy, !.result = result, !.verdict = q.verdict,
                  !.fromCache = q.fromCache, !.promoted = q.promoted,
                  !.expiredWhenServed = q.expiredWhenServed,
                  !.afterWatch = q.afterWatch, !.afterUse = q.afterUse,
                  !.cleared = q.cleared, !.sessionId = q.sessionId,
                  !.isApi = q.isApi, !.outcomes = q.outcomes, !.socket = q.socket,
                  !.stale = q.stale, !.waited = q.waited, !.timer = q.timer,
                  !.observer = q.observer, !.request = q.request, !.init = q.init,
                  !.setCookie = q.setCookie, !.touched = q.touched,
                  !.wildcardHost = q.wildcardHost, !.hostname = q.hostname, !.id = q.id,
                  !.receiver = q.receiver, !.sent = q.sent, !.headers = q.headers,
                  !.rootUrl = q.rootUrl]

\* request slots are taken in order: slot r is free and every slot before it
\* is busy
Free(r) ==
  /\ req[r].pc = "idle"
  /\ \A r0 \in Reqs : (r0 = "r1" /\ r = "r2") => req[r0].pc # "idle"

\* the observer has delivered and finished every change made to token t
Processed(t) == t \notin tokenEvents /\ (watcher.pc = "idle" \/ watcher.token # t)

\* token t is revoked or removed and the revocation watcher has processed it
RevocationProcessed(t) ==
  /\ (~ApiTokens[t].exists \/ ApiTokens[t].revoked)
  /\ Processed(t)

\* where a handler goes once validateWebkey has returned or thrown `error`
AfterValidate(q, error) ==
  IF error # Ok THEN Finish(q, error)
  ELSE IF q.kind = "api" THEN [q EXCEPT !.pc = "create"]
  ELSE IF q.kind = "openToken" THEN [q EXCEPT !.pc = "openSession"]
  ELSE Finish(q, Ok)

\* ApiTokens.findOne(hashedToken) followed by the checks of validateWebkey
\* on the document found; the ApiTokens.update it asks for is a later step
Validate(q, refreshedExpiration) ==
  LET tokenInfo == ApiTokens[q.token]
      v == validateWebkey(tokenInfo, refreshedExpiration, now)
      q1 == [q EXCEPT !.tokenInfo = tokenInfo, !.verdict = v,
                      !.refreshedExpiration = refreshedExpiration,
                      !.afterUse = q.token \in used]
  IN IF v.update # "none" THEN [q1 EXCEPT !.pc = "update"]
     ELSE AfterValidate(q1, v.error)

(* ------------------- the token of an API request ---------------------- *)
\* String.prototype.toLowerCase on the scheme of an Authorization header
toLowerCase(str) ==
  CASE str \in {"Bearer", "BEARER", "bearer"} -> "bearer"
    [] str \in {"Basic", "BASIC", "basic"} -> "basic"
    [] str = "Digest" -> "digest"
    [] OTHER -> str

\* the first 32 hex digits of SHA-256("x" + token): a digest per token,
\* different tokens having different digests, and none being a token
apiHostIdHashForToken(token) ==
  CASE token = "t1" -> "d1"
    [] token = "t2" -> "d2"
    [] token = "t3" -> "d3"
    [] OTHER -> "d0"

\* A host id is its text split at "-": "api" is <<"api">> and "api-d1" is
\* <<"api", "d1">> (a digest holds no "-").
apiHostIdForToken(token) == <<"api", apiHostIdHashForToken(token)>>

\* hostId.lastIndexOf("api-", 0) === 0
isTokenSpecificHostId(hostId) == Len(hostId) >= 2 /\ hostId[1] = "api"

\* apiUseBasicAuth(req, hostId); `agent` tells whether the User-Agent
\* matches BASIC_AUTH_USER_AGENTS_REGEX
apiUseBasicAuth(origin, agent, hostId) ==
  IF isTokenSpecificHostId(hostId) /\ ~origin THEN TRUE ELSE agent

\* apiTokenForRequest with the test of the host left out
apiTokenForRequestAnyHost(authorization, origin, agent, hostId) ==
  IF authorization.scheme # NULL /\ toLowerCase(authorization.scheme) = "bearer"
  THEN authorization.token
  ELSE IF /\ authorization.scheme # NULL
          /\ toLowerCase(authorization.scheme) = "basic"
          /\ apiUseBasicAuth(origin, agent, hostId)
  THEN IF Len(authorization.parts) >= 2 THEN authorization.parts[2] ELSE NULL
  ELSE NULL

\* apiTokenForRequest(req, hostId): the bearer token, or the password of a
\* permitted basic authorization, dropped on a host other than "api" that
\* is not the token's own; NULL is undefined
apiTokenForRequest(authorization, origin, agent, hostId) ==
  LET token ==
        IF authorization.scheme # NULL /\ toLowerCase(authorization.scheme) = "bearer"
        THEN authorization.token
        ELSE IF /\ authorization.scheme # NULL
                /\ toLowerCase(authorization.scheme) = "basic"
                /\ apiUseBasicAuth(origin, agent, hostId)
        THEN IF Len(authorization.parts) >= 2 THEN authorization.parts[2] ELSE NULL
        ELSE NULL
  IN IF Truthy(token) /\ hostId # <<"api">> /\ hostId # apiHostIdForToken(token)
     THEN NULL
     ELSE token

(* ----------------- API requests: getProxyForApiToken ------------------ *)
\* tryProxyRequest on an API host with a token and no keep-alive header:
\* getProxyForApiToken up to the first yield after the token was validated.
apiTokenRequest(r, t, p, q0) ==
  /\ Free(r)
  /\ LET g == Get(newBucket, oldBucket, t, p)
         q == [q0 EXCEPT !.kind = "api", !.token = t, !.params = p,
                              !.promoted = (g.oldBucket # oldBucket),
                              !.afterWatch = RevocationProcessed(t)]
     IN /\ newBucket' = g.newBucket
        /\ oldBucket' = g.oldBucket
        /\ IF g.proxy # NullProxy
           THEN req' = [req EXCEPT ![r] =
                  IF proxies[g.proxy].expires # NoDate /\ proxies[g.proxy].expires <= now
                  THEN Finish([q EXCEPT !.fromCache = TRUE],
                              MeteorError(403, "Authorization token expired"))
                  ELSE Finish([q EXCEPT !.fromCache = TRUE, !.proxy = g.proxy,
                                        !.expiredWhenServed =
                                           TokenExpired(proxies[g.proxy].apiToken, now)],
                              Dispatched)]
           ELSE req' = [req EXCEPT ![r] = Validate(q, NoDate)]
  /\ UNCHANGED <<now, ApiTokens, grainExists, Sessions, proxiesByHostId, proxies,
                 tokenEvents, sessionEvents, watcher, used, changes,
                 backend>>

ApiRequest(r, t, p) == apiTokenRequest(r, t, p, IdleReq)

\* tryProxyRequest with X-Sandstorm-Token-Keepalive: validateWebkey with a
\* refreshed expiration, no Proxy involved
keepaliveRequest(r, t, d, q0) ==
  /\ Free(r)
  /\ req' = [req EXCEPT ![r] =
       Validate([q0 EXCEPT !.kind = "keepalive", !.token = t,
                                !.afterWatch = RevocationProcessed(t)], now + d)]
  /\ UNCHANGED <<now, ApiTokens, grainExists, Sessions, proxiesByHostId, newBucket,
                 oldBucket, proxies, tokenEvents, sessionEvents, watcher, used, changes,
                 backend>>

KeepaliveRequest(r, t, d) == keepaliveRequest(r, t, d, IdleReq)

\* tryProxyRequest on an API host once the token is known: the keep-alive,
\* the token's Proxy, or the answer to a request without a usable token
\* (200 for OPTIONS and for a static resource, else 401 or 403)
apiHostDispatch(r, q0, t, p, d) ==
  IF Truthy(t) /\ d # NoDate THEN keepaliveRequest(r, t, d, q0)
  ELSE IF Truthy(t) THEN apiTokenRequest(r, t, p, q0)
  ELSE /\ Free(r)
       /\ \E code \in IF q0.request.method = "OPTIONS" THEN {200} ELSE {200, 401, 403} :
            req' = [req EXCEPT ![r] =
              Finish([q0 EXCEPT !.kind = "noToken"],
                     IF code = 200 THEN Ok
                     ELSE [code |-> code, reason |-> "Missing or invalid authorization header."])]
       /\ UNCHANGED <<now, ApiTokens, grainExists, Sessions, proxiesByHostId,
                      newBucket, oldBucket, proxies, tokenEvents, sessionEvents,
                      watcher, used, changes, backend>>

\* tryProxyRequest on the API host: the CORS headers, then the keep-alive,
\* the token's Proxy, or the answer to a request without a token
tryProxyRequest(r, t, p, d, method, requestedMethod, requestedHeaders) ==
  LET q0 == [IdleReq EXCEPT
               !.request = [NoRequest EXCEPT !.kind = "api", !.method = method,
                                            !.requestedMethod = requestedMethod,
                                            !.requestedHeaders = requestedHeaders],
               !.headers = apiHostHeaders(method, requestedMethod, requestedHeaders)]
  IN apiHostDispatch(r, q0, t, p, d)

\* tryProxyRequest(hostId, req, res) on the shared or a token-specific API
\* host: the token is what apiTokenForRequest finds in the request
tryProxyRequestOnHost(r, hostId, authorization, origin, agent, p, d, method) ==
  LET q0 == [IdleReq EXCEPT
               !.request = [NoRequest EXCEPT !.kind = "api", !.method = method,
                                            !.authorization = authorization,
                                            !.origin = origin, !.hostId = hostId],
               !.headers = apiHostHeaders(method, NULL, NULL)]
  IN apiHostDispatch(r, q0, apiTokenForRequest(authorization, origin, agent, hostId), p, d)

\* the ApiTokens.update of validateWebkey, then its last check
ValidateUpdate(r) ==
  /\ req[r].pc = "update"
  /\ LET q == req[r]
         t == q.token
         value == IF q.verdict.update = "refresh" THEN q.refreshedExpiration ELSE NoDate
     IN /\ ApiTokens' = IF ApiTokens[t].exists
                        THEN [ApiTokens EXCEPT ![t].expiresIfUnused = value]
                        ELSE ApiTokens
        /\ used' = IF ApiTokens[t].exists /\ q.verdict.update = "clear"
                   THEN used \cup {t} ELSE used
        /\ req' = [req EXCEPT ![r] = AfterValidate(q, q.verdict.error)]
  /\ UNCHANGED <<now, grainExists, Sessions, proxiesByHostId, newBucket, oldBucket,
                 proxies, tokenEvents, sessionEvents, watcher, changes,
                 backend>>

\* getProxyForApiToken after validateWebkey: Grains.findOne, new Proxy and
\* the queries of mayOpenGrain
ApiCreate(r) ==
  /\ req[r].pc = "create"
  /\ LET q == req[r] IN
     req' = [req EXCEPT ![r] =
       IF ~grainExists
       THEN Finish(q, MeteorError(410, "Resource has been deleted"))
       ELSE IF ~mayOpenGrainToken(ApiTokens, q.tokenInfo)
       THEN Finish(q, MeteorError(403, "Unauthorized."))
       ELSE [q EXCEPT !.pc = "put"]]
  /\ UNCHANGED <<now, ApiTokens, grainExists, Sessions, proxiesByHostId, newBucket,
                 oldBucket, proxies, tokenEvents, sessionEvents, watcher, used, changes,
                 backend>>

\* the end of getProxyForApiToken, once mayOpenGrain has answered:
\* proxy.expires and apiSessionProxies.put.  proxies records the object
\* built by ApiCreate when it enters the cache.
ApiPut(r) ==
  /\ req[r].pc = "put"
  /\ LET q == req[r]
         id == Len(proxies) + 1
         proxy == [NewProxy(NULL, NULL, NULL, TRUE, NULL)
                     EXCEPT !.apiToken = q.token, !.expires = q.tokenInfo.expires]
     IN /\ id <= MaxProxies
        /\ proxies' = Append(proxies, proxy)
        /\ newBucket' = Put(newBucket, q.token, q.params, id)
        /\ req' = [req EXCEPT ![r] = Finish([q EXCEPT !.proxy = id], Dispatched)]
  /\ UNCHANGED <<now, ApiTokens, grainExists, Sessions, proxiesByHostId, oldBucket,
                 tokenEvents, sessionEvents, watcher, used, changes,
                 backend>>

\* the interval callback of ApiSessionProxies
Sweep ==
  /\ oldBucket # EmptyBucket \/ newBucket # EmptyBucket
  /\ LET stale == {k \in Keys : oldBucket[k] # NullProxy /\ newBucket[k] = NullProxy}
         kept == {k \in stale : proxies[oldBucket[k]].websockets # {}}
     IN /\ proxies' = CloseAll(proxies, {oldBucket[k] : k \in stale \ kept})
        /\ oldBucket' = [k \in Keys |-> IF k \in kept THEN oldBucket[k] ELSE newBucket[k]]
        /\ newBucket' = EmptyBucket
  /\ UNCHANGED <<now, ApiTokens, grainExists, Sessions, proxiesByHostId,
                 tokenEvents, sessionEvents, watcher, req, used, changes,
                 backend>>

(* ------------------- opening sessions (Meteor methods) ---------------- *)
\* the Sessions documents clearSessionsAndProxies selects
SessionsOf(tokenIds, identityIds) ==
  {h \in Hosts : /\ Sessions[h].exists
                 /\ \/ Sessions[h].identityId \in identityIds
                    \/ Sessions[h].hashedToken \in tokenIds}

\* every in-flight getProxyForHostId creation on a host of hs that has read
\* its Session notes that its table slot was deleted
NoteCleared(rq, hs) ==
  [r \in Reqs |-> IF rq[r].pc = "construct" /\ rq[r].host \in hs
                  THEN [rq[r] EXCEPT !.cleared = TRUE] ELSE rq[r]]

\* openSession(grainId, identityId): up to the Sessions.insert of
\* openSessionInternal
OpenSession(r, i, h) ==
  /\ Free(r)
  /\ LET q == [IdleReq EXCEPT !.kind = "open", !.identityId = i] IN
     IF ~grainExists
     THEN /\ req' = [req EXCEPT ![r] = Finish(q, MeteorError(404, "Grain not found"))]
          /\ UNCHANGED Sessions
     ELSE IF ~mayOpenGrainIdentity(ApiTokens, i)
     THEN /\ req' = [req EXCEPT ![r] = Finish(q, MeteorError(403, "Unauthorized"))]
          /\ UNCHANGED Sessions
     ELSE /\ ~Sessions[h].exists
          /\ Sessions' = [Sessions EXCEPT ![h] =
               [exists |-> TRUE, hashedToken |-> NULL, identityId |-> i, timestamp |-> now,
                hasLoaded |-> FALSE]]
          /\ req' = [req EXCEPT ![r] = [q EXCEPT !.pc = "install", !.host = h]]
  /\ UNCHANGED <<now, ApiTokens, grainExists, proxiesByHostId, newBucket, oldBucket,
                 proxies, tokenEvents, sessionEvents, watcher, used, changes,
                 backend>>

\* openSessionFromApiToken(params, identityId): ApiTokens.findOne and
\* validateWebkey
OpenSessionFromApiToken(r, t) ==
  /\ Free(r)
  /\ req' = [req EXCEPT ![r] =
       Validate([IdleReq EXCEPT !.kind = "openToken", !.token = t,
                                !.afterWatch = RevocationProcessed(t)], NoDate)]
  /\ UNCHANGED <<now, ApiTokens, grainExists, Sessions, proxiesByHostId, newBucket,
                 oldBucket, proxies, tokenEvents, sessionEvents, watcher, used, changes,
                 backend>>

\* openSessionFromApiToken after validateWebkey: Grains.findOne, the
\* logged-in redirect, mayOpenGrain and the Sessions.insert of
\* openSessionInternal
OpenTokenSession(r, h, loggedIn) ==
  /\ req[r].pc = "openSession"
  /\ LET q == req[r] IN
     IF ~grainExists
     THEN /\ req' = [req EXCEPT ![r] = Finish(q, MeteorError(404, "Grain not found"))]
          /\ UNCHANGED Sessions
     ELSE IF loggedIn
     THEN /\ req' = [req EXCEPT ![r] = Finish(q, Redirect)]
          /\ UNCHANGED Sessions
     ELSE IF ~mayOpenGrainToken(ApiTokens, q.tokenInfo)
     THEN /\ req' = [req EXCEPT ![r] = Finish(q, MeteorError(403, "Unauthorized"))]
          /\ UNCHANGED Sessions
     ELSE /\ ~Sessions[h].exists
          /\ Sessions' = [Sessions EXCEPT ![h] =
               [exists |-> TRUE, hashedToken |-> q.token, identityId |-> NULL,
                timestamp |-> now, hasLoaded |-> FALSE]]
          /\ req' = [req EXCEPT ![r] = [q EXCEPT !.pc = "install", !.host = h]]
  /\ UNCHANGED <<now, ApiTokens, grainExists, proxiesByHostId, newBucket, oldBucket,
                 proxies, tokenEvents, sessionEvents, watcher, used, changes,
                 backend>>

\* both methods, once openSessionInternal has returned: new Proxy(...) and
\* proxiesByHostId[result.hostId] = proxy
InstallProxy(r) ==
  /\ req[r].pc = "install"
  /\ LET q == req[r]
         id == Len(proxies) + 1
         supervisor == IF q.kind = "open" THEN globalBackendCap ELSE NULL
         proxy == [NewProxy(q.host, q.host, q.identityId, FALSE, supervisor)
                     EXCEPT !.apiToken = q.token]
     IN /\ id <= MaxProxies
        /\ proxies' = Append(proxies, proxy)
        /\ proxiesByHostId' = [proxiesByHostId EXCEPT ![q.host] = id]
        /\ req' = [req EXCEPT ![r] = Finish([q EXCEPT !.proxy = id], Ok)]
  /\ UNCHANGED <<now, ApiTokens, grainExists, Sessions, newBucket, oldBucket,
                 tokenEvents, sessionEvents, watcher, used, changes,
                 backend>>

(* --------------- session hosts: getProxyForHostId --------------------- *)
\* the first then() of getProxyForHostId, run for the handler q
LookupHost(r, q) ==
  LET proxy == proxiesByHostId[q.host] IN
  IF proxy # NoKey /\ proxy # NullProxy
  THEN /\ req' = [req EXCEPT ![r] =
            Finish([q EXCEPT !.fromCache = TRUE, !.proxy = proxy,
                             !.expiredWhenServed = TokenExpired(proxies[proxy].apiToken, now)],
                   Dispatched)]
       /\ UNCHANGED proxiesByHostId
  ELSE /\ proxiesByHostId' = [proxiesByHostId EXCEPT ![q.host] = NullProxy]
       /\ req' = [req EXCEPT ![r] = [q EXCEPT !.pc = "findSession"]]

\* tryProxyRequest on a session host: getProxyForHostId(hostId, isAlreadyOpened)
HostRequest(r, h, isAlreadyOpened) ==
  /\ Free(r)
  /\ LookupHost(r, [IdleReq EXCEPT !.kind = "host", !.host = h,
                                   !.isAlreadyOpened = isAlreadyOpened])
  /\ UNCHANGED <<now, ApiTokens, grainExists, Sessions, newBucket, oldBucket, proxies,
                 tokenEvents, sessionEvents, watcher, used, changes,
                 backend>>

\* inside inMeteor: Sessions.findOne, ApiTokens.findOne, Grains.findOne
FindSession(r) ==
  /\ req[r].pc = "findSession"
  /\ LET q == req[r]
         session == Sessions[q.host]
     IN req' = [req EXCEPT ![r] =
          IF ~session.exists
          THEN IF q.isAlreadyOpened
               THEN [q EXCEPT !.pc = "observe", !.waited = TRUE, !.timer = TRUE,
                              !.deadline = now + SESSION_PROXY_TIMEOUT]
               ELSE Finish(q, NoProxy)
          ELSE IF session.hashedToken # NULL /\ ~ApiTokens[session.hashedToken].exists
          THEN Finish(q, MeteorError(410, "ApiToken has been deleted"))
          ELSE IF ~grainExists
          THEN Finish(q, MeteorError(410, "Resource has been deleted"))
          ELSE [q EXCEPT !.pc = "construct", !.token = session.hashedToken,
                         !.identityId = session.identityId,
                         !.expiredWhenServed = TokenExpired(session.hashedToken, now)]]
  /\ UNCHANGED <<now, ApiTokens, grainExists, Sessions, proxiesByHostId, newBucket,
                 oldBucket, proxies, tokenEvents, sessionEvents, watcher, used, changes,
                 backend>>

\* new Proxy(...) and the `hostId in proxiesByHostId` test; proxies records
\* the object only when it is installed
ConstructProxy(r) ==
  /\ req[r].pc = "construct"
  /\ LET q == req[r]
         id == Len(proxies) + 1
         proxy == [NewProxy(q.host, q.host, q.identityId, FALSE, NULL)
                     EXCEPT !.apiToken = q.token]
     IN IF proxiesByHostId[q.host] # NoKey
        THEN /\ id <= MaxProxies
             /\ proxies' = Append(proxies, proxy)
             /\ proxiesByHostId' = [proxiesByHostId EXCEPT ![q.host] = id]
             /\ req' = [req EXCEPT ![r] = Finish([q EXCEPT !.proxy = id], Dispatched)]
        ELSE \* the object just built is dropped unused
             /\ UNCHANGED <<proxies, proxiesByHostId>>
             /\ req' = [req EXCEPT ![r] =
                  Finish(q, MeteorError(403, "Session was concurrently closed."))]
  /\ UNCHANGED <<now, ApiTokens, grainExists, Sessions, newBucket, oldBucket,
                 tokenEvents, sessionEvents, watcher, used, changes,
                 backend>>

\* the exception `observer.stop()` throws while `observer` is not assigned
TypeError == [code |-> 500, reason |-> "TypeError"]

\* Sessions.find({ hostId }).observe({ added }) of the restore wait.  observe
\* delivers the documents its query finds to `added` before it returns, that
\* is before `observer` is assigned: the callback's `observer.stop()` throws
\* out of the Promise executor, the timer stays set and the handle is never
\* stopped.
RestoreObserve(r) ==
  /\ req[r].pc = "observe"
  /\ req' = [req EXCEPT ![r] =
       IF Sessions[req[r].host].exists
       THEN Finish([req[r] EXCEPT !.observer = TRUE], TypeError)
       ELSE [req[r] EXCEPT !.pc = "waitRestore", !.observer = TRUE]]
  /\ UNCHANGED <<now, ApiTokens, grainExists, Sessions, proxiesByHostId, newBucket,
                 oldBucket, proxies, tokenEvents, sessionEvents, watcher, used, changes,
                 backend>>

\* the `added` callback of the restore observer, once observe has returned:
\* observer.stop(), clearTimeout, getProxyForHostId(hostId, false)
RestoreAdded(r) ==
  /\ req[r].pc = "waitRestore"
  /\ Sessions[req[r].host].exists
  /\ LookupHost(r, [req[r] EXCEPT !.isAlreadyOpened = FALSE, !.deadline = NoDate,
                                  !.observer = FALSE, !.timer = FALSE])
  /\ UNCHANGED <<now, ApiTokens, grainExists, Sessions, newBucket, oldBucket, proxies,
                 tokenEvents, sessionEvents, watcher, used, changes,
                 backend>>

\* the SESSION_PROXY_TIMEOUT timer of the restore wait
RestoreTimeout(r) ==
  /\ req[r].pc = "waitRestore"
  /\ now >= req[r].deadline
  /\ req' = [req EXCEPT ![r] =
       Finish([req[r] EXCEPT !.observer = FALSE, !.timer = FALSE],
              MeteorError(504, "Requested session that no longer exists"))]
  /\ UNCHANGED <<now, ApiTokens, grainExists, Sessions, proxiesByHostId, newBucket,
                 oldBucket, proxies, tokenEvents, sessionEvents, watcher, used, changes,
                 backend>>

\* the handler's result has been delivered; the slot takes the next request
Reset(r) ==
  /\ req[r].pc = "done"
  /\ req' = [req EXCEPT ![r] = IdleReq]
  /\ UNCHANGED <<now, ApiTokens, grainExists, Sessions, proxiesByHostId, newBucket,
                 oldBucket, proxies, tokenEvents, sessionEvents, watcher, used, changes,
                 backend>>

(* ------------------------- revocation watcher ------------------------- *)
IdleWatcher == [pc |-> "idle", token |-> NULL, tokenIds |-> {}, identityIds |-> {}]

\* the ApiTokens observer delivers changed()/removed() for token t:
\* clearSessionsAndProxies up to the end of downstream.forEach
ClearProxies(t) ==
  /\ watcher.pc = "idle"
  /\ t \in tokenEvents
  /\ LET downstream == downstreamTokens(ApiTokens, t) \cup {t}
         identityIds == {InitialTokens[d].ownerIdentity : d \in downstream} \ {NULL}
     IN /\ proxies' = CloseAll(proxies, ProxiesOfTokens(newBucket, oldBucket, downstream))
        /\ newBucket' = removeProxiesOfToken(newBucket, downstream)
        /\ oldBucket' = removeProxiesOfToken(oldBucket, downstream)
        /\ watcher' = [pc |-> "find", token |-> t, tokenIds |-> downstream,
                       identityIds |-> identityIds]
  /\ tokenEvents' = tokenEvents \ {t}
  /\ UNCHANGED <<now, ApiTokens, grainExists, Sessions, proxiesByHostId,
                 sessionEvents, req, used, changes,
                 backend>>

\* clearSessionsAndProxies: Sessions.find(...).forEach
ClearSessionProxies ==
  /\ watcher.pc = "find"
  /\ LET hs == SessionsOf(watcher.tokenIds, watcher.identityIds) IN
     /\ proxies' = CloseAll(proxies, {proxiesByHostId[h] : h \in hs})
     /\ proxiesByHostId' = [h \in Hosts |-> IF h \in hs THEN NoKey ELSE proxiesByHostId[h]]
     /\ req' = NoteCleared(req, {h \in hs : proxiesByHostId[h] # NoKey})
  /\ watcher' = [watcher EXCEPT !.pc = "remove"]
  /\ UNCHANGED <<now, ApiTokens, grainExists, Sessions, newBucket, oldBucket,
                 tokenEvents, sessionEvents, used, changes,
                 backend>>

\* clearSessionsAndProxies: Sessions.remove(...)
ClearSessions ==
  /\ watcher.pc = "remove"
  /\ LET hs == SessionsOf(watcher.tokenIds, watcher.identityIds) IN
     /\ Sessions' = [h \in Hosts |-> IF h \in hs THEN NoSession ELSE Sessions[h]]
     /\ sessionEvents' = sessionEvents \cup hs
  /\ watcher' = IdleWatcher
  /\ UNCHANGED <<now, ApiTokens, grainExists, proxiesByHostId, newBucket, oldBucket,
                 proxies, tokenEvents, req, used, changes,
                 backend>>

\* Sessions.find().observe({ removed(session) })
SessionRemoved(h) ==
  /\ h \in sessionEvents
  /\ sessionEvents' = sessionEvents \ {h}
  /\ proxies' = CloseAll(proxies, {proxiesByHostId[h]})
  /\ proxiesByHostId' = [proxiesByHostId EXCEPT ![h] = NoKey]
  /\ req' = NoteCleared(req, IF proxiesByHostId[h] # NoKey THEN {h} ELSE {})
  /\ UNCHANGED <<now, ApiTokens, grainExists, Sessions, newBucket, oldBucket,
                 tokenEvents, watcher, used, changes,
                 backend>>

\* the Meteor method keepSessionAlive(sessionId): Sessions.findAndModify
keepSessionAlive(h) ==
  /\ Sessions[h].exists
  /\ Sessions[h].timestamp # now
  /\ Sessions' = [Sessions EXCEPT ![h].timestamp = now]
  /\ UNCHANGED <<now, ApiTokens, grainExists, proxiesByHostId, newBucket, oldBucket,
                 proxies, tokenEvents, sessionEvents, watcher, req, used, changes,
                 backend>>

\* gcSessions
gcSessions ==
  /\ LET hs == {h \in Hosts : Sessions[h].exists /\ Sessions[h].timestamp < now - TIMEOUT_MS} IN
     /\ hs # {}
     /\ Sessions' = [h \in Hosts |-> IF h \in hs THEN NoSession ELSE Sessions[h]]
     /\ sessionEvents' = sessionEvents \cup hs
  /\ UNCHANGED <<now, ApiTokens, grainExists, proxiesByHostId, newBucket, oldBucket,
                 proxies, tokenEvents, watcher, req, used, changes,
                 backend>>

(* ----------------------------- environment ---------------------------- *)
\* updateApiToken(token._id, { revoked: true })
RevokeToken(t) ==
  /\ changes < MaxChanges
  /\ changes' = changes + 1
  /\ ApiTokens[t].exists /\ ~ApiTokens[t].revoked
  /\ ApiTokens' = [ApiTokens EXCEPT ![t].revoked = TRUE]
  /\ tokenEvents' = tokenEvents \cup {t}
  /\ UNCHANGED <<now, grainExists, Sessions, proxiesByHostId, newBucket, oldBucket,
                 proxies, sessionEvents, watcher, req, used,
                 backend>>

\* the token's roleAssignment is replaced (the documents do not record its
\* value: only the observer's changed() callback depends on it)
ChangeRoleAssignment(t) ==
  /\ changes < MaxChanges
  /\ changes' = changes + 1
  /\ ApiTokens[t].exists
  /\ t \notin tokenEvents
  /\ tokenEvents' = tokenEvents \cup {t}
  /\ UNCHANGED <<now, ApiTokens, grainExists, Sessions, proxiesByHostId, newBucket, oldBucket,
                 proxies, sessionEvents, watcher, req, used,
                 backend>>

\* the token document is removed from ApiTokens
RemoveToken(t) ==
  /\ changes < MaxChanges
  /\ changes' = changes + 1
  /\ ApiTokens[t].exists
  /\ ApiTokens' = [ApiTokens EXCEPT ![t] = MissingToken]
  /\ tokenEvents' = tokenEvents \cup {t}
  /\ UNCHANGED <<now, grainExists, Sessions, proxiesByHostId, newBucket, oldBucket,
                 proxies, sessionEvents, watcher, req, used,
                 backend>>

\* the grain document is removed from Grains
DeleteGrain ==
  /\ changes < MaxChanges
  /\ changes' = changes + 1
  /\ grainExists
  /\ grainExists' = FALSE
  /\ UNCHANGED <<now, ApiTokens, Sessions, proxiesByHostId, newBucket, oldBucket,
                 proxies, tokenEvents, sessionEvents, watcher, req, used,
                 backend>>

\* time passes
Tick ==
  /\ now + Quantum <= MaxTime
  /\ now' = now + Quantum
  /\ UNCHANGED <<ApiTokens, grainExists, Sessions, proxiesByHostId, newBucket, oldBucket,
                 proxies, tokenEvents, sessionEvents, watcher, req, used, changes,
                 backend>>

\* time passes, half an idle window at a time
ShortTick ==
  /\ now + HalfWindow <= MaxShortTicks * HalfWindow
  /\ now' = now + HalfWindow
  /\ UNCHANGED <<ApiTokens, grainExists, Sessions, proxiesByHostId, newBucket, oldBucket,
                 proxies, tokenEvents, sessionEvents, watcher, req, used, changes,
                 backend>>

(* ------------------------- the Proxy object ---------------------------- *)
\* `new Proxy(grainId, ownerId, sessionId, hostId, null, isApi)` called with
\* arbitrary arguments
Construct(r, sessionId, hostId, isApi) ==
  /\ Free(r)
  /\ LET q == [IdleReq EXCEPT !.kind = "new", !.sessionId = sessionId, !.host = hostId,
                              !.isApi = isApi]
         id == Len(proxies) + 1
     IN IF ProxyConstructorThrows(sessionId, hostId, isApi)
        THEN /\ req' = [req EXCEPT ![r] = Finish(q, [code |-> 500, reason |-> "Error"])]
             /\ UNCHANGED proxies
        ELSE /\ id <= MaxBuilt
             /\ proxies' = Append(proxies, NewProxy(sessionId, hostId, NULL, isApi, NULL))
             /\ req' = [req EXCEPT ![r] = Finish([q EXCEPT !.proxy = id], Ok)]
  /\ UNCHANGED <<now, ApiTokens, grainExists, Sessions, proxiesByHostId, newBucket,
                 oldBucket, tokenEvents, sessionEvents, watcher, used, changes,
                 backend>>

\* the plain request that carries the session cookie of proxy id
OwnRequest(id) ==
  Request("request", <<Cookie("sandstorm-sid", proxies[id].sessionId)>>, RootUrl)
\* the WebSocket upgrade that carries the session cookie of proxy id
OwnUpgrade(id) ==
  Request("upgrade", <<Cookie("sandstorm-sid", proxies[id].sessionId)>>, RootUrl)

\* the Sessions collection after proxy.setHasLoaded(): the first call on a
\* Proxy runs Sessions.update({ _id: sessionId }, { $set: { hasLoaded: true } })
SessionsAfterSetHasLoaded(proxy) ==
  IF proxy.hasLoaded THEN Sessions
  ELSE [h \in Hosts |-> IF h = proxy.sessionId /\ Sessions[h].exists
                        THEN [Sessions[h] EXCEPT !.hasLoaded = TRUE]
                        ELSE Sessions[h]]

\* proxy.requestHandler(request, response): /_sandstorm-init is answered by
\* doSessionInit; a POST or PUT with a long body goes to
\* handleRequestStreaming, every other request to readAll and
\* handleRequest(request, data, response, 0)
requestHandler(r, id, request) ==
  /\ Free(r)
  /\ id \in DOMAIN proxies
  /\ LET proxy == proxies[id]
         q == [IdleReq EXCEPT !.kind = IF useStreaming(request) THEN "streaming" ELSE "request",
                              !.proxy = id, !.request = request]
     IN req' = [req EXCEPT ![r] =
          IF /\ Truthy(proxy.sessionId)
             /\ request.url.pathname = "/_sandstorm-init"
             /\ request.url.sessionid = proxy.sessionId
          THEN LET response == doSessionInit(proxy, request.url.path) IN
               Finish([q EXCEPT !.init = TRUE, !.setCookie = response.setCookie],
                      response.result)
          ELSE [q EXCEPT !.pc = IF useStreaming(request) THEN "stream" ELSE "handle"]]
  /\ UNCHANGED <<now, ApiTokens, grainExists, Sessions, proxiesByHostId, newBucket,
                 oldBucket, proxies, tokenEvents, sessionEvents, watcher, used, changes,
                 backend>>

\* the catch of requestHandler for the handler q that threw `error` on proxy
\* id: setHasLoaded, then the error's status line
requestFailed(r, q, id, proxy, error) ==
  /\ proxies' = [proxies EXCEPT ![id] = setHasLoaded(proxy)]
  /\ Sessions' = SessionsAfterSetHasLoaded(proxy)
  /\ req' = [req EXCEPT ![r] =
       Finish([q EXCEPT !.touched = @ \/ SessionsAfterSetHasLoaded(proxy) # Sessions], error)]

\* translateResponse for the handler q on proxy id: the app's cookies,
\* setHasLoaded, the status line
requestAnswered(r, q, id, proxy, setCookies) ==
  /\ proxies' = [proxies EXCEPT ![id] = setHasLoaded(proxy)]
  /\ Sessions' = SessionsAfterSetHasLoaded(proxy)
  /\ req' = [req EXCEPT ![r] =
       Finish([q EXCEPT !.setCookie = translateResponse(proxy, setCookies),
                        !.touched = @ \/ SessionsAfterSetHasLoaded(proxy) # Sessions], Ok)]

\* one invocation of Proxy.handleRequest: makeContext, getSession, the RPC,
\* and either translateResponse or the catch with maybeRetryAfterError.  An
\* error that is not retried reaches the catch of requestHandler.
handleRequest(r, outcome, setCookies) ==
  /\ req[r].pc = "handle"
  /\ LET id == req[r].proxy
         context == makeContext(proxies[id], req[r].request)
         proxy == getSession(proxies[id])
         stale == proxy.supervisor # globalBackendCap
         q == [req[r] EXCEPT !.outcomes = Append(@, outcome), !.stale = @ \/ stale,
                             !.call = "none"]
     IN IF context # NoError
        THEN requestFailed(r, req[r], id, proxies[id], context)
        ELSE IF req[r].request.method \notin Methods /\ ~shouldRestartGrain("Error", req[r].retryCount)
        THEN requestFailed(r, req[r], id, proxy, InternalServerError)
        ELSE /\ stale => outcome # "ok"
             /\ IF outcome = "ok"
                THEN requestAnswered(r, q, id, proxy, setCookies)
                ELSE IF shouldRestartGrain(outcome, q.retryCount)
                THEN /\ proxies' = [proxies EXCEPT ![id] = resetConnection(proxy)]
                     /\ req' = [req EXCEPT ![r] = [q EXCEPT !.pc = "continueGrain"]]
                     /\ UNCHANGED Sessions
                ELSE requestFailed(r, q, id, proxy, InternalServerError)
  /\ UNCHANGED <<now, ApiTokens, grainExists, proxiesByHostId, newBucket,
                 oldBucket, tokenEvents, sessionEvents, watcher, used, changes,
                 backend>>

\* what the RPC of a streaming upload can answer
StreamingOutcomes == BackendOutcomes \cup {"unimplemented"}

\* one invocation of Proxy.handleRequestStreaming: makeContext, getSession,
\* postStreaming or putStreaming, and either translateResponse, the retry,
\* the fall-back to handleRequest(request, data, response, 0), or the error
handleRequestStreaming(r, outcome, setCookies) ==
  /\ req[r].pc = "stream"
  /\ req[r].call # "cancelled"
  /\ req[r].upload => outcome \in {"ok", "failed"}
  /\ LET id == req[r].proxy
         context == makeContext(proxies[id], req[r].request)
         proxy == getSession(proxies[id])
         q == [req[r] EXCEPT !.outcomes = Append(@, outcome), !.call = "none",
                             !.upload = FALSE]
     IN IF context # NoError
        THEN requestFailed(r, req[r], id, proxies[id], context)
        ELSE IF outcome = "ok"
        THEN requestAnswered(r, q, id, proxy, setCookies)
        ELSE IF shouldRestartGrain(outcome, 0) /\ shouldRestartGrain(outcome, q.retryCount)
        THEN /\ proxies' = [proxies EXCEPT ![id] = resetConnection(proxy)]
             /\ req' = [req EXCEPT ![r] = [q EXCEPT !.pc = "continueGrain"]]
             /\ UNCHANGED Sessions
        ELSE IF outcome = "unimplemented"
        THEN /\ proxies' = [proxies EXCEPT ![id] = proxy]
             /\ req' = [req EXCEPT ![r] =
                  [q EXCEPT !.kind = "request", !.pc = "handle", !.retryCount = 0]]
             /\ UNCHANGED Sessions
        ELSE requestFailed(r, q, id, proxy, InternalServerError)
  /\ UNCHANGED <<now, ApiTokens, grainExists, proxiesByHostId, newBucket,
                 oldBucket, tokenEvents, sessionEvents, watcher, used, changes,
                 backend>>

\* The session call of a handler is made and its promise is pending:
\* session.get and the like in handleRequest, postStreaming or putStreaming
\* in handleRequestStreaming, openWebSocket in handleWebSocket.  makeContext
\* has built context.responseStream on a promise that only translateResponse
\* settles; handleWebSocket passes no response, so the promise's executor
\* throws and the promise is rejected at once.
sessionCall(r) ==
  /\ req[r].pc \in {"handle", "stream", "upgrade"}
  /\ req[r].call = "none"
  /\ makeContext(proxies[req[r].proxy], req[r].request) = NoError
  /\ req[r].pc = "handle" => req[r].request.method \in Methods
  /\ req[r].pc = "upgrade" => hasWebSocketKey(req[r].request)
  /\ req' = [req EXCEPT ![r].call = "pending",
                        ![r].responseStream = IF req[r].pc = "upgrade" THEN "rejected"
                                              ELSE "pending"]
  /\ UNCHANGED <<now, ApiTokens, grainExists, Sessions, proxiesByHostId, newBucket,
                 oldBucket, proxies, tokenEvents, sessionEvents, watcher, used, changes,
                 backend>>

\* postStreaming or putStreaming has resolved: getResponse() is called and
\* the listeners for the request's data, end, close and error are attached
requestStreamOpened(r) ==
  /\ req[r].pc = "stream"
  /\ req[r].call = "pending"
  /\ ~req[r].upload
  /\ req' = [req EXCEPT ![r].upload = TRUE]
  /\ UNCHANGED <<now, ApiTokens, grainExists, Sessions, proxiesByHostId, newBucket,
                 oldBucket, proxies, tokenEvents, sessionEvents, watcher, used, changes,
                 backend>>

\* The client's connection closes while the handler waits.  Only the
\* listener attached by handleRequestStreaming reacts to the request's
\* "close": reportUploadStreamError cancels the getResponse promise.
ClientClosed(r) ==
  /\ req[r].pc \in {"handle", "stream", "upgrade", "continueGrain"}
  /\ ~req[r].clientClosed
  /\ req' = [req EXCEPT ![r].clientClosed = TRUE,
                        ![r].call = IF req[r].upload THEN "cancelled" ELSE @]
  /\ UNCHANGED <<now, ApiTokens, grainExists, Sessions, proxiesByHostId, newBucket,
                 oldBucket, proxies, tokenEvents, sessionEvents, watcher, used, changes,
                 backend>>

\* maybeRetryAfterError once globalBackend.continueGrain has answered, then
\* the replay handleRequest(request, data, response, retryCount + 1)
continueGrain(r, restarted) ==
  /\ req[r].pc = "continueGrain"
  /\ LET q == req[r]
         id == q.proxy
     IN IF restarted
        THEN /\ proxies' = [proxies EXCEPT ![id].supervisor = globalBackendCap]
             /\ req' = [req EXCEPT ![r] =
                  [q EXCEPT !.pc = IF q.kind = "upgrade" THEN "upgrade"
                                   ELSE IF q.kind = "streaming" THEN "stream"
                                   ELSE "handle",
                            !.retryCount = ReplayRetryCount(@)]]
             /\ UNCHANGED Sessions
        ELSE IF q.kind = "upgrade"
        THEN /\ UNCHANGED <<proxies, Sessions>>
             /\ req' = [req EXCEPT ![r] =
                  Finish([q EXCEPT !.outcomes = Append(@, "notRestarted")],
                         [code |-> 0, reason |-> "socket.destroy"])]
        ELSE requestFailed(r, [q EXCEPT !.outcomes = Append(@, "notRestarted")],
                           id, proxies[id], InternalServerError)
  /\ UNCHANGED <<now, ApiTokens, grainExists, proxiesByHostId, newBucket,
                 oldBucket, tokenEvents, sessionEvents, watcher, used, changes,
                 backend>>

\* proxy.upgradeHandler(request, socket, head): handleWebSocket(request,
\* socket, head, 0)
upgradeHandler(r, id, request) ==
  /\ Free(r)
  /\ id \in DOMAIN proxies
  /\ proxies[id].websocketCounter < MaxSockets
  /\ req' = [req EXCEPT ![r] =
       [IdleReq EXCEPT !.kind = "upgrade", !.pc = "upgrade", !.proxy = id,
                       !.request = request]]
  /\ UNCHANGED <<now, ApiTokens, grainExists, Sessions, proxiesByHostId, newBucket,
                 oldBucket, proxies, tokenEvents, sessionEvents, watcher, used, changes,
                 backend>>

\* one invocation of Proxy.handleWebSocket: makeContext, getSession, the
\* test for the key, a new WebSocketReceiver, openWebSocket, the socket
\* stored in this.websockets under the next websocketCounter and pumped;
\* then what the application sends (sent) and the RPC's answer.  The
\* request's socket is named by the index of its first registration.
handleWebSocket(r, outcome, sent) ==
  /\ req[r].pc = "upgrade"
  /\ LET id == req[r].proxy
         context == makeContext(proxies[id], req[r].request)
         p0 == getSession(proxies[id])
         socketIdx == p0.websocketCounter
         socket == IF req[r].socket = NoKey THEN socketIdx ELSE req[r].socket
         receiver == sendAll(WebSocketReceiver(req[r].receiver.written), sent, 1)
         q == [req[r] EXCEPT !.outcomes = Append(@, outcome), !.socket = socket,
                             !.receiver = receiver, !.sent = sent, !.call = "none"]
         proxy == [p0 EXCEPT !.websockets = @ \cup {[idx |-> socketIdx, socket |-> socket]},
                             !.websocketCounter = @ + 1]
     IN /\ socketIdx < MaxSockets
        /\ IF context # NoError
           THEN /\ UNCHANGED proxies
                /\ req' = [req EXCEPT ![r] =
                     Finish(req[r], [code |-> 0, reason |-> "socket.destroy"])]
           ELSE IF hasWebSocketKey(req[r].request) /\ outcome = "ok"
           THEN /\ proxies' = [proxies EXCEPT ![id] = proxy]
                /\ req' = [req EXCEPT ![r] =
                     Finish([q EXCEPT !.receiver = switchProtocols(receiver)],
                            [code |-> 101, reason |-> "Switching Protocols"])]
           ELSE LET called == hasWebSocketKey(req[r].request)
                    error == IF called THEN outcome ELSE "Error"
                    thrower == IF called THEN proxy ELSE p0
                    q1 == IF called THEN q ELSE req[r]
                IN IF shouldRestartGrain(error, q1.retryCount)
                   THEN /\ proxies' = [proxies EXCEPT ![id] = resetConnection(thrower)]
                        /\ req' = [req EXCEPT ![r] = [q1 EXCEPT !.pc = "continueGrain"]]
                   ELSE /\ proxies' = [proxies EXCEPT ![id] = thrower]
                        /\ req' = [req EXCEPT ![r] =
                             Finish(q1, [code |-> 0, reason |-> "socket.destroy"])]
  /\ UNCHANGED <<now, ApiTokens, grainExists, Sessions, proxiesByHostId, newBucket,
                 oldBucket, tokenEvents, sessionEvents, watcher, used, changes,
                 backend>>

\* the application calls sendBytes on the receiver of an open WebSocket
receiverSendBytes(r, message) ==
  /\ req[r].kind = "upgrade"
  /\ req[r].pc = "done"
  /\ req[r].result.code = 101
  /\ Len(req[r].receiver.written) < MaxWritten
  /\ req' = [req EXCEPT ![r].receiver = sendBytes(@, message)]
  /\ UNCHANGED <<now, ApiTokens, grainExists, Sessions, proxiesByHostId, newBucket,
                 oldBucket, proxies, tokenEvents, sessionEvents, watcher, used, changes,
                 backend>>

\* the socket's "close" event: every destructor pumpWebSocket registered for
\* it deletes its entry of this.websockets
SocketClosed(id, s) ==
  /\ id \in DOMAIN proxies
  /\ \E w \in proxies[id].websockets : w.socket = s
  /\ proxies' = [proxies EXCEPT ![id].websockets = {w \in @ : w.socket # s},
                                ![id].closedSockets = @ \cup {s}]
  /\ UNCHANGED <<now, ApiTokens, grainExists, Sessions, proxiesByHostId, newBucket,
                 oldBucket, tokenEvents, sessionEvents, watcher, req, used, changes,
                 backend>>

\* proxy.close() called on the object
CloseProxy(id) ==
  /\ id \in DOMAIN proxies
  /\ proxies' = CloseAll(proxies, {id})
  /\ UNCHANGED <<now, ApiTokens, grainExists, Sessions, proxiesByHostId, newBucket,
                 oldBucket, tokenEvents, sessionEvents, watcher, req, used, changes,
                 backend>>

(* ------------- concurrent requests on one Proxy, step by step ---------- *)
\* The steps of handleRequest taken one at a time, for requests that share a
\* Proxy.  this.session is "promise" while the promise getSession wrapped in
\* the capability has not yet called uiView.newSession, "session" once it
\* has, "dead" once the grain behind it has gone.  The call of a request is
\* "queued" on a session that is still a promise, "orphaned" when
\* resetConnection has dropped that promise, "pending" once sent to the
\* application, "failing" when the grain went away under it, "broken" when
\* the promise it was queued on was rejected.

\* getSession(request) up to the return of the capability
openSession(proxy) ==
  IF proxy.session = NULL
  THEN [getConnection(proxy) EXCEPT !.session = "promise"]
  ELSE proxy

\* handleRequest from makeContext to the call on the session
handleRequestCall(r) ==
  /\ req[r].pc = "handle"
  /\ req[r].call = "none"
  /\ LET id == req[r].proxy
         proxy == openSession(proxies[id])
     IN /\ makeContext(proxies[id], req[r].request) = NoError
        /\ proxies' = [proxies EXCEPT ![id] = proxy]
        /\ req' = [req EXCEPT ![r].call = IF proxy.session = "dead" THEN "failing"
                                          ELSE IF proxy.session = "promise" THEN "queued"
                                          ELSE "pending"]
  /\ UNCHANGED <<now, ApiTokens, grainExists, Sessions, proxiesByHostId, newBucket,
                 oldBucket, tokenEvents, sessionEvents, watcher, used, changes,
                 backend>>

\* the promise of getSession reaches _callNewWebSession on the Proxy that
\* still holds it: this.uiView.newSession(...) is called and the queued calls
\* are sent
sessionOpened(id) ==
  /\ id \in DOMAIN proxies
  /\ proxies[id].session = "promise"
  /\ proxies' = [proxies EXCEPT ![id].session = "session"]
  /\ req' = [r \in Reqs |-> IF req[r].proxy = id /\ req[r].call = "queued"
                            THEN [req[r] EXCEPT !.call = "pending"] ELSE req[r]]
  /\ UNCHANGED <<now, ApiTokens, grainExists, Sessions, proxiesByHostId, newBucket,
                 oldBucket, tokenEvents, sessionEvents, watcher, used, changes,
                 backend>>

\* the promise of a getSession made before a resetConnection reaches
\* _callNewWebSession: it reads this.uiView as it is now, and throws when
\* there is none
orphanSessionOpened(r) ==
  /\ req[r].call = "orphaned"
  /\ req' = [req EXCEPT ![r].call = IF proxies[req[r].proxy].uiView = NULL THEN "broken"
                                    ELSE "pending"]
  /\ UNCHANGED <<now, ApiTokens, grainExists, Sessions, proxiesByHostId, newBucket,
                 oldBucket, proxies, tokenEvents, sessionEvents, watcher, used, changes,
                 backend>>

\* The grain behind the handles of Proxy id goes away, once: the session is
\* dead and every call made on it will be rejected with a disconnect.
GrainDisconnects(id) ==
  /\ id \in DOMAIN proxies
  /\ proxies[id].session \in {"promise", "session"}
  /\ \A r \in Reqs :
       /\ req[r].call \notin {"failing", "orphaned", "broken"}
       /\ \A i \in 1..Len(req[r].outcomes) : req[r].outcomes[i] = "ok"
  /\ proxies' = [proxies EXCEPT ![id].session = "dead"]
  /\ req' = [r \in Reqs |-> IF req[r].proxy = id /\ req[r].call \in {"queued", "pending"}
                            THEN [req[r] EXCEPT !.call = "failing"] ELSE req[r]]
  /\ UNCHANGED <<now, ApiTokens, grainExists, Sessions, proxiesByHostId, newBucket,
                 oldBucket, tokenEvents, sessionEvents, watcher, used, changes,
                 backend>>

\* the call of handleRequest resolved: translateResponse
handleRequestResolved(r) ==
  /\ req[r].pc = "handle"
  /\ req[r].call = "pending"
  /\ requestAnswered(r, [req[r] EXCEPT !.outcomes = Append(@, "ok"), !.call = "none"],
                     req[r].proxy, proxies[req[r].proxy], <<>>)
  /\ UNCHANGED <<now, ApiTokens, grainExists, proxiesByHostId, newBucket,
                 oldBucket, tokenEvents, sessionEvents, watcher, used, changes,
                 backend>>

\* the call of handleRequest was rejected: the catch with
\* maybeRetryAfterError; resetConnection drops the session whatever request
\* opened it
handleRequestRejected(r) ==
  /\ req[r].pc = "handle"
  /\ req[r].call \in {"failing", "broken"}
  /\ LET id == req[r].proxy
         error == IF req[r].call = "failing" THEN "disconnected" ELSE "Error"
         q == [req[r] EXCEPT !.outcomes = Append(@, error), !.call = "none"]
     IN IF shouldRestartGrain(error, q.retryCount)
        THEN /\ proxies' = [proxies EXCEPT ![id] = resetConnection(proxies[id])]
             /\ req' = [r0 \in Reqs |->
                  IF r0 = r THEN [q EXCEPT !.pc = "continueGrain"]
                  ELSE IF req[r0].proxy = id /\ req[r0].call = "queued"
                                             /\ proxies[id].session = "promise"
                  THEN [req[r0] EXCEPT !.call = "orphaned"]
                  ELSE req[r0]]
             /\ UNCHANGED Sessions
        ELSE requestFailed(r, q, id, proxies[id], InternalServerError)
  /\ UNCHANGED <<now, ApiTokens, grainExists, proxiesByHostId, newBucket,
                 oldBucket, tokenEvents, sessionEvents, watcher, used, changes,
                 backend>>

(* ------------------------- host name routing -------------------------- *)
\* matchWildcardHost(host) under the setting wildcardHost
MatchHost(r, wildcardHost, host) ==
  /\ Free(r)
  /\ req' = [req EXCEPT ![r] =
       Finish([IdleReq EXCEPT !.kind = "match", !.wildcardHost = wildcardHost,
                              !.hostname = host,
                              !.id = matchWildcardHost(wildcardHost, host)], Ok)]
  /\ UNCHANGED <<now, ApiTokens, grainExists, Sessions, proxiesByHostId, newBucket,
                 oldBucket, proxies, tokenEvents, sessionEvents, watcher, used, changes,
                 backend>>

\* matchWildcardHost(makeWildcardHost(id)) under the setting wildcardHost
MakeAndMatchHost(r, wildcardHost, id) ==
  /\ Free(r)
  /\ req' = [req EXCEPT ![r] =
       Finish([IdleReq EXCEPT !.kind = "roundTrip", !.wildcardHost = wildcardHost,
                              !.hostname = id,
                              !.id = matchWildcardHost(wildcardHost,
                                                       makeWildcardHost(wildcardHost, id))],
              Ok)]
  /\ UNCHANGED <<now, ApiTokens, grainExists, Sessions, proxiesByHostId, newBucket,
                 oldBucket, proxies, tokenEvents, sessionEvents, watcher, used, changes,
                 backend>>

\* translateResponse on the Proxy of host id hostId (empty: an API Proxy)
\* under the settings wildcardHost and ROOT_URL: the headers of the response
TranslateResponse(r, hostId, wildcardHost, rootUrl) ==
  /\ Free(r)
  /\ req' = [req EXCEPT ![r] =
       Finish([IdleReq EXCEPT !.kind = "translate", !.wildcardHost = wildcardHost,
                              !.hostname = hostId, !.rootUrl = rootUrl,
                              !.headers = translateResponseHeaders(NoHeaders, hostId,
                                                                   wildcardHost, rootUrl)],
              Ok)]
  /\ UNCHANGED <<now, ApiTokens, grainExists, Sessions, proxiesByHostId, newBucket,
                 oldBucket, proxies, tokenEvents, sessionEvents, watcher, used, changes,
                 backend>>

(* ---------------------- backend health check -------------------------- *)
\* backendHealthy, disconnectCount and the connection at start-up.  pinging:
\* the last ping is still outstanding.  unanswered: how many interval
\* callbacks in a row found their previous ping unanswered.
InitialBackend ==
  [healthy |-> TRUE, disconnectCount |-> 0, connection |-> 1, pinging |-> FALSE,
   aborted |-> FALSE, unanswered |-> 0]

\* the interval callback: abort or reconnect when the previous ping went
\* unanswered, then ping
HealthCheck ==
  /\ ~backend.aborted
  /\ backend' =
       IF ~backend.healthy
       THEN IF backend.disconnectCount > 2
            THEN [backend EXCEPT !.disconnectCount = @ + 1, !.aborted = TRUE,
                                 !.pinging = FALSE, !.unanswered = @ + 1]
            ELSE [backend EXCEPT !.disconnectCount = @ + 1, !.connection = @ + 1,
                                 !.healthy = FALSE, !.pinging = TRUE,
                                 !.unanswered = @ + 1]
       ELSE [backend EXCEPT !.healthy = FALSE, !.pinging = TRUE, !.unanswered = 0]
  /\ UNCHANGED <<now, ApiTokens, grainExists, Sessions, proxiesByHostId, newBucket,
                 oldBucket, proxies, tokenEvents, sessionEvents, watcher, req, used,
                 changes>>

\* the ping's promise resolves
PingAnswered ==
  /\ ~backend.aborted
  /\ backend.pinging
  /\ backend' = [backend EXCEPT !.healthy = TRUE, !.pinging = FALSE]
  /\ UNCHANGED <<now, ApiTokens, grainExists, Sessions, proxiesByHostId, newBucket,
                 oldBucket, proxies, tokenEvents, sessionEvents, watcher, req, used,
                 changes>>

\* the ping's promise rejects
PingThrew ==
  /\ ~backend.aborted
  /\ backend.pinging
  /\ backend' = [backend EXCEPT !.pinging = FALSE]
  /\ UNCHANGED <<now, ApiTokens, grainExists, Sessions, proxiesByHostId, newBucket,
                 oldBucket, proxies, tokenEvents, sessionEvents, watcher, req, used,
                 changes>>

(* ---------------------------- specification --------------------------- *)
Init ==
  /\ now = 0
  /\ ApiTokens = InitialTokens
  /\ grainExists = TRUE
  /\ Sessions = InitialSessions
  /\ proxiesByHostId = [h \in Hosts |-> NoKey]
  /\ newBucket = EmptyBucket
  /\ oldBucket = EmptyBucket
  /\ proxies = <<>>
  /\ tokenEvents = {}
  /\ sessionEvents = {}
  /\ watcher = IdleWatcher
  /\ req = [r \in Reqs |-> IdleReq]
  /\ used = {}
  /\ changes = 0
  /\ backend = InitialBackend

\* the revocation watcher and the mutations of the tokens ts it reacts to
Watcher(ts) ==
  \/ \E t \in Tokens : ClearProxies(t)
  \/ ClearSessionProxies
  \/ ClearSessions
  \/ \E t \in ts : RevokeToken(t)
  \/ \E t \in ts : ChangeRoleAssignment(t)
  \/ \E t \in ts : RemoveToken(t)

\* API hosts: bearer-token requests and the double-bucket cache
Next ==
  \/ \E r \in Reqs, t \in ApiSideTokens, p \in Params : ApiRequest(r, t, p)
  \/ \E r \in Reqs, t \in KeepaliveTokens, d \in KeepaliveDurations : KeepaliveRequest(r, t, d)
  \/ \E r \in Reqs : ValidateUpdate(r)
  \/ \E r \in Reqs : ApiCreate(r)
  \/ \E r \in Reqs : ApiPut(r)
  \/ Sweep
  \/ \E r \in Reqs : Reset(r)
  \/ Watcher(ApiSideTokens)
  \/ Tick

Spec == Init /\ [][Next]_vars

\* the double-bucket cache alone: bearer-token requests and the sweep, no
\* token ever changed
NextGet ==
  \/ \E r \in Reqs, t \in ApiSideTokens, p \in Params : ApiRequest(r, t, p)
  \/ \E r \in Reqs : ValidateUpdate(r)
  \/ \E r \in Reqs : ApiCreate(r)
  \/ \E r \in Reqs : ApiPut(r)
  \/ Sweep
  \/ \E r \in Reqs : Reset(r)

SpecGet == Init /\ [][NextGet]_vars

\* the cache with WebSockets on the cached Proxies, the backend answering
\* every openWebSocket
NextCache ==
  \/ NextGet
  \/ \E r \in Reqs, id \in ProxyIds : upgradeHandler(r, id, OwnUpgrade(id))
  \/ \E r \in Reqs : handleWebSocket(r, "ok", <<>>)
  \/ \E id \in ProxyIds, s \in 0..(MaxSockets - 1) : SocketClosed(id, s)

SpecCache == Init /\ [][NextCache]_vars

\* the backend health check and the Proxies' use of the connection
NextHealth ==
  \/ HealthCheck
  \/ PingAnswered
  \/ PingThrew
  \/ \E r \in Reqs, sessionId \in SessionIdArgs, hostId \in HostIdArgs, isApi \in BOOLEAN :
       Construct(r, sessionId, hostId, isApi)
  \/ \E r \in Reqs, id \in ProxyIds : requestHandler(r, id, OwnRequest(id))
  \/ \E r \in Reqs, outcome \in BackendOutcomes : handleRequest(r, outcome, <<>>)
  \/ \E r \in Reqs, restarted \in BOOLEAN : continueGrain(r, restarted)
  \/ \E r \in Reqs : Reset(r)

SpecHealth == Init /\ [][NextHealth]_vars

\* session hosts: UI sessions and proxiesByHostId
NextHost ==
  \/ \E r \in Reqs, i \in Identities, h \in Hosts : OpenSession(r, i, h)
  \/ \E r \in Reqs, t \in HostSideTokens : OpenSessionFromApiToken(r, t)
  \/ \E r \in Reqs, h \in Hosts, loggedIn \in BOOLEAN : OpenTokenSession(r, h, loggedIn)
  \/ \E r \in Reqs : InstallProxy(r)
  \/ \E r \in Reqs, h \in Hosts, o \in BOOLEAN : HostRequest(r, h, o)
  \/ \E r \in Reqs : FindSession(r)
  \/ \E r \in Reqs : ConstructProxy(r)
  \/ \E r \in Reqs : RestoreObserve(r)
  \/ \E r \in Reqs : RestoreAdded(r)
  \/ \E r \in Reqs : RestoreTimeout(r)
  \/ \E r \in Reqs : Reset(r)
  \/ \E h \in Hosts : SessionRemoved(h)
  \/ \E h \in Hosts : keepSessionAlive(h)
  \/ gcSessions
  \/ Watcher(Tokens)
  \/ DeleteGrain
  \/ Tick

SpecHost == Init /\ [][NextHost]_vars

\* host names matched against the wildcard host setting, one at a time
NextWildcard ==
  \/ \E w \in WildcardHosts, host \in Strings(Chars, MaxHostLen) : MatchHost("r1", w, host)
  \/ \E w \in WildcardHosts, id \in Strings(IdChars, MaxIdLen) : MakeAndMatchHost("r1", w, id)
  \/ Reset("r1")

SpecWildcard == Init /\ [][NextWildcard]_vars

\* Two requests on the Proxy of the session h1, handled step by step, with
\* the grain going away at most once.
InitReplay ==
  /\ now = 0
  /\ ApiTokens = InitialTokens
  /\ grainExists = TRUE
  /\ Sessions = InitialSessions
  /\ proxiesByHostId = [h \in Hosts |-> NoKey]
  /\ newBucket = EmptyBucket
  /\ oldBucket = EmptyBucket
  /\ proxies = <<NewProxy("h1", "h1", NULL, FALSE, NULL)>>
  /\ tokenEvents = {}
  /\ sessionEvents = {}
  /\ watcher = IdleWatcher
  /\ req = [r \in Reqs |-> IdleReq]
  /\ used = {}
  /\ changes = 0
  /\ backend = InitialBackend

NextReplay ==
  \/ \E r \in Reqs : requestHandler(r, 1, OwnRequest(1))
  \/ \E r \in Reqs : handleRequestCall(r)
  \/ sessionOpened(1)
  \/ \E r \in Reqs : orphanSessionOpened(r)
  \/ GrainDisconnects(1)
  \/ \E r \in Reqs : handleRequestResolved(r)
  \/ \E r \in Reqs : handleRequestRejected(r)
  \/ \E r \in Reqs : continueGrain(r, TRUE)

SpecReplay == InitReplay /\ [][NextReplay]_vars

\* Responses translated for session-bound and API Proxies under every setting
\* of the wildcard host and of ROOT_URL.
NextCsp ==
  \/ \E r \in Reqs, hostId \in Strings(IdChars, MaxIdLen), w \in WildcardHosts,
        rootUrl \in RootUrls : TranslateResponse(r, hostId, w, rootUrl)
  \/ \E r \in Reqs : Reset(r)

SpecCsp == Init /\ [][NextCsp]_vars

\* WebSocket upgrades on the Proxy of the session h1, with and without the
\* key, and what the application sends on them
NextUpgrade ==
  \/ Construct("r1", "h1", "h1", FALSE)
  \/ \E id \in ProxyIds, key \in BOOLEAN :
       upgradeHandler("r1", id, [OwnUpgrade(id) EXCEPT !.secWebSocketKey = key])
  \/ \E outcome \in BackendOutcomes, sent \in AppMessages : handleWebSocket("r1", outcome, sent)
  \/ \E restarted \in BOOLEAN : continueGrain("r1", restarted)
  \/ \E message \in {"m1", "m2"} : receiverSendBytes("r1", message)
  \/ \E id \in ProxyIds, s \in 0..(MaxSockets - 1) : SocketClosed(id, s)
  \/ Reset("r1")

SpecUpgrade == Init /\ [][NextUpgrade]_vars

\* the requests of every method and body length on the Proxy of the session h1
VerbRequests(id) ==
  {[OwnRequest(id) EXCEPT !.method = method, !.contentLength = contentLength] :
     method \in Methods \cup {"TRACE", "get"},
     contentLength \in {NoContentLength, 1024 * 1024, 1024 * 1024 + 1}}

NextVerb ==
  \/ Construct("r1", "h1", "h1", FALSE)
  \/ \E id \in DOMAIN proxies : \E request \in VerbRequests(id) :
       requestHandler("r1", id, request)
  \/ \E outcome \in BackendOutcomes : handleRequest("r1", outcome, <<>>)
  \/ \E outcome \in StreamingOutcomes : handleRequestStreaming("r1", outcome, <<>>)
  \/ \E restarted \in BOOLEAN : continueGrain("r1", restarted)
  \/ Reset("r1")

SpecVerb == Init /\ [][NextVerb]_vars

\* requests and upgrades on the Proxy of the session h1 whose client may go
\* away while the call to the application is pending
NextCancel ==
  \/ Construct("r1", "h1", "h1", FALSE)
  \/ \E id \in ProxyIds, kind \in {"request", "streaming"} :
       requestHandler("r1", id, [OwnRequest(id) EXCEPT !.method = IF kind = "streaming"
                                                                 THEN "PUT" ELSE "GET"])
  \/ \E id \in ProxyIds : upgradeHandler("r1", id, OwnUpgrade(id))
  \/ sessionCall("r1")
  \/ requestStreamOpened("r1")
  \/ ClientClosed("r1")
  \/ \E outcome \in BackendOutcomes : handleRequest("r1", outcome, <<>>)
  \/ \E outcome \in StreamingOutcomes : handleRequestStreaming("r1", outcome, <<>>)
  \/ \E outcome \in BackendOutcomes : handleWebSocket("r1", outcome, <<>>)
  \/ \E restarted \in BOOLEAN : continueGrain("r1", restarted)
  \/ \E id \in ProxyIds, s \in 0..(MaxSockets - 1) : SocketClosed(id, s)
  \/ Reset("r1")

SpecCancel == Init /\ [][NextCancel]_vars

\* the Proxy of the session h1 and the requests a client can send to it, one
\* request at a time
NextCookie ==
  \/ \E r \in {"r1"} : Construct(r, "h1", "h1", FALSE)
  \/ \E r \in {"r1"}, id \in ProxyIds, request \in HttpRequests : requestHandler(r, id, request)
  \/ \E r \in {"r1"}, outcome \in BackendOutcomes, setCookies \in AppSetCookies :
       handleRequest(r, outcome, setCookies)
  \/ \E r \in {"r1"}, outcome \in StreamingOutcomes, setCookies \in AppSetCookies :
       handleRequestStreaming(r, outcome, setCookies)
  \/ \E r \in {"r1"}, id \in ProxyIds, request \in UpgradeRequests : upgradeHandler(r, id, request)
  \/ \E r \in {"r1"}, outcome \in BackendOutcomes : handleWebSocket(r, outcome, <<>>)
  \/ \E r \in {"r1"}, restarted \in BOOLEAN : continueGrain(r, restarted)
  \/ \E r \in {"r1"} : Reset(r)

SpecCookie == Init /\ [][NextCookie]_vars

\* the restore wait: requests on a host whose Session is gone, and the client
\* opening the session again
NextRestore ==
  \/ \E r \in Reqs, i \in Identities, h \in Hosts : OpenSession(r, i, h)
  \/ \E r \in Reqs : InstallProxy(r)
  \/ \E r \in Reqs, h \in Hosts : HostRequest(r, h, TRUE)
  \/ \E r \in Reqs : FindSession(r)
  \/ \E r \in Reqs : ConstructProxy(r)
  \/ \E r \in Reqs : RestoreObserve(r)
  \/ \E r \in Reqs : RestoreAdded(r)
  \/ \E r \in Reqs : RestoreTimeout(r)
  \/ \E r \in Reqs : Reset(r)
  \/ gcSessions
  \/ \E h \in Hosts : SessionRemoved(h)
  \/ ShortTick

SpecRestore == Init /\ [][NextRestore]_vars

\* the session garbage collector, keep-alives and requests on the session's host
NextGc ==
  \/ \E r \in Reqs, h \in Hosts : HostRequest(r, h, FALSE)
  \/ \E r \in Reqs : FindSession(r)
  \/ \E r \in Reqs : ConstructProxy(r)
  \/ \E r \in Reqs : Reset(r)
  \/ \E h \in Hosts : keepSessionAlive(h)
  \/ gcSessions
  \/ \E h \in Hosts : SessionRemoved(h)
  \/ ShortTick

SpecGc == Init /\ [][NextGc]_vars

\* the Proxy object alone: construction, request handling with its retry,
\* close
NextProxy ==
  \/ \E r \in Reqs, sessionId \in SessionIdArgs, hostId \in HostIdArgs, isApi \in BOOLEAN :
       Construct(r, sessionId, hostId, isApi)
  \/ \E r \in Reqs, id \in ProxyIds : requestHandler(r, id, OwnRequest(id))
  \/ \E r \in Reqs, outcome \in BackendOutcomes : handleRequest(r, outcome, <<>>)
  \/ \E r \in Reqs, restarted \in BOOLEAN : continueGrain(r, restarted)
  \/ \E id \in ProxyIds : CloseProxy(id)
  \/ \E r \in Reqs : Reset(r)

SpecProxy == Init /\ [][NextProxy]_vars

\* the Proxy object and its WebSockets
NextSocket ==
  \/ \E r \in Reqs, sessionId \in SessionIdArgs, hostId \in HostIdArgs, isApi \in BOOLEAN :
       Construct(r, sessionId, hostId, isApi)
  \/ \E r \in Reqs, id \in ProxyIds : upgradeHandler(r, id, OwnUpgrade(id))
  \/ \E r \in Reqs, outcome \in BackendOutcomes : handleWebSocket(r, outcome, <<>>)
  \/ \E r \in Reqs, restarted \in BOOLEAN : continueGrain(r, restarted)
  \/ \E id \in ProxyIds, s \in 0..(MaxSockets - 1) : SocketClosed(id, s)
  \/ \E id \in ProxyIds : CloseProxy(id)
  \/ \E r \in Reqs : Reset(r)

SpecSocket == Init /\ [][NextSocket]_vars

\* validateWebkey on every shape of token document
TokenDocs ==
  {MissingToken} \cup
  [exists : {TRUE}, revoked : BOOLEAN, owner : {"webkey", "user", "none"},
   ownerIdentity : {NULL}, expires : {NoDate, 0, Quantum},
   expiresIfUnused : {NoDate, 0, Quantum}, objectId : BOOLEAN,
   frontendRef : BOOLEAN, parentToken : {NULL}]

InitValidate ==
  /\ now = 0
  /\ \E doc \in TokenDocs : ApiTokens = [InitialTokens EXCEPT !["t1"] = doc]
  /\ grainExists = TRUE
  /\ Sessions = [h \in Hosts |-> NoSession]
  /\ proxiesByHostId = [h \in Hosts |-> NoKey]
  /\ newBucket = EmptyBucket
  /\ oldBucket = EmptyBucket
  /\ proxies = <<>>
  /\ tokenEvents = {}
  /\ sessionEvents = {}
  /\ watcher = IdleWatcher
  /\ req = [r \in Reqs |-> IdleReq]
  /\ used = {}
  /\ changes = 0
  /\ backend = InitialBackend

NextValidate ==
  \/ \E r \in Reqs, t \in KeepaliveTokens, p \in Params : ApiRequest(r, t, p)
  \/ \E r \in Reqs, t \in KeepaliveTokens, d \in KeepaliveDurations \cup {HalfWindow} :
       KeepaliveRequest(r, t, d)
  \/ \E r \in Reqs : ValidateUpdate(r)
  \/ \E r \in Reqs : ApiCreate(r)
  \/ \E r \in Reqs : ApiPut(r)
  \/ \E r \in Reqs : Reset(r)
  \/ Tick

SpecValidate == InitValidate /\ [][NextValidate]_vars

\* Requests on the API host with and without the CORS request headers, over
\* every shape of token document.
RequestedMethods == {NULL, "", "GET", "DELETE", "get", "PROPFIND"}
RequestedHeaders == {NULL, "", "authorization, content-type"}

NextPreflight ==
  \/ \E t \in KeepaliveTokens \cup {NULL}, p \in Params,
        d \in KeepaliveDurations \cup {NoDate}, method \in {"OPTIONS", "GET"},
        requestedMethod \in RequestedMethods, requestedHeaders \in RequestedHeaders :
       tryProxyRequest("r1", t, p, d, method, requestedMethod, requestedHeaders)
  \/ \E r \in Reqs : ValidateUpdate(r)
  \/ \E r \in Reqs : ApiCreate(r)
  \/ \E r \in Reqs : ApiPut(r)
  \/ \E r \in Reqs : Reset(r)
  \/ Tick

SpecPreflight == InitValidate /\ [][NextPreflight]_vars

\* Requests on the shared API host and on the hosts of two tokens, with
\* bearer and basic authorizations carrying either token, an empty one or
\* none
ApiHostIds == {<<"api">>, apiHostIdForToken("t1"), apiHostIdForToken("t2")}
Authorizations ==
  {NoAuthorization, Authorization("Digest", "t1", <<"u", "t1">>),
   Authorization("bearer", "t1", <<"t1">>), Authorization("Basic", "u", <<"u">>)} \cup
  {Authorization(scheme, t, <<"u", t>>) :
     scheme \in {"Bearer", "Basic"}, t \in {"t1", "t2", ""}}

NextApiHost ==
  \/ \E hostId \in ApiHostIds, authorization \in Authorizations,
        origin \in BOOLEAN, agent \in BOOLEAN, p \in Params,
        d \in KeepaliveDurations \cup {NoDate}, method \in {"OPTIONS", "GET"} :
       tryProxyRequestOnHost("r1", hostId, authorization, origin, agent, p, d, method)
  \/ \E r \in Reqs : ValidateUpdate(r)
  \/ \E r \in Reqs : ApiCreate(r)
  \/ \E r \in Reqs : ApiPut(r)
  \/ \E r \in Reqs : Reset(r)
  \/ Tick

SpecApiHost == Init /\ [][NextApiHost]_vars

(* -------------------------------- claims ------------------------------ *)
\* the keys of both API buckets for the tokens ts are empty
NoCachedProxy(ts) ==
  \A k \in Keys : k[1] \in ts => newBucket[k] = NullProxy /\ oldBucket[k] = NullProxy

\* C1: once the watcher has processed the revocation or the removal of a
\* token T, neither API bucket holds a Proxy keyed by T or by a token
\* downstream of T, no Session opened with one of those tokens or by an
\* identity owning one of them is left with a Proxy in proxiesByHostId, and
\* every request made with T from then on ends with a 403.
C1_RevocationCleansUp ==
  \A t \in Tokens :
    RevocationProcessed(t) =>
      LET downstream == downstreamTokens(ApiTokens, t) \cup {t}
          identityIds == {InitialTokens[d].ownerIdentity : d \in downstream} \ {NULL}
      IN /\ NoCachedProxy(downstream)
         /\ \A h \in SessionsOf(downstream, identityIds) :
              proxiesByHostId[h] \in {NoKey, NullProxy}
         /\ \A r \in Reqs :
              (req[r].pc = "done" /\ req[r].kind = "api" /\ req[r].token = t
                 /\ req[r].afterWatch)
              => req[r].result.code = 403

\* C2: whatever the interleaving of a revocation with API requests bearing
\* the token, once the watcher has processed the revocation no API bucket
\* holds a Proxy for the token and no request that starts later is served
\* from the cache.
C2_NoStaleCachedProxy ==
  \A t \in Tokens :
    RevocationProcessed(t) =>
      /\ NoCachedProxy({t})
      /\ \A r \in Reqs :
           (req[r].pc = "done" /\ req[r].token = t /\ req[r].afterWatch)
           => ~(req[r].fromCache /\ req[r].result = Dispatched)

\* the handleRequest invocations of the request in slot r so far
Invocations(r) == Len(SelectSeq(req[r].outcomes, LAMBDA o : o # "notRestarted"))

\* C3: a request that meets one transient error (a disconnect) is replayed
\* once after the grain is restarted and then succeeds; if the replay meets
\* a transient error again the request ends with HTTP 500; handleRequest is
\* never invoked a third time for one request.
C3_RetryOnce ==
  \A r \in Reqs :
    req[r].kind = "request" =>
      /\ Invocations(r) <= 2
      /\ req[r].pc = "continueGrain" => req[r].outcomes = <<"disconnected">>
      /\ (req[r].pc = "done" /\ req[r].outcomes = <<"disconnected", "ok">>)
           => req[r].result = Ok
      /\ (req[r].pc = "done" /\ req[r].outcomes = <<"disconnected", "disconnected">>)
           => req[r].result.code = 500

\* a request whose replay met a second disconnect has ended with 500
C3_Witness ==
  \E r \in Reqs :
    /\ req[r].pc = "done"
    /\ req[r].outcomes = <<"disconnected", "disconnected">>
    /\ req[r].result.code = 500

\* C4: no request is dispatched to a Proxy bound to a token whose expires
\* time has passed, whether the Proxy is an API proxy or the proxy of a UI
\* session opened from the token.
C4_ExpiryOnEveryRequest ==
  \A r \in Reqs :
    (req[r].pc = "done" /\ req[r].result = Dispatched) => ~req[r].expiredWhenServed

\* what a validation that found the document doc at time t must answer when
\* the checks are applied in the order missing, revoked, owner kind, expires,
\* expiresIfUnused, non-webview object; a missing record ends with the
\* status missingCode
ChecksInOrder(doc, t, v, missingCode) ==
  LET missing == ~doc.exists
      revoked == doc.revoked
      wrongKind == doc.owner # "none" /\ doc.owner # "webkey"
      expired == doc.expires # NoDate /\ doc.expires <= t
      unusedExpired == doc.expiresIfUnused # NoDate /\ doc.expiresIfUnused <= t
      nonWebview == doc.objectId \/ doc.frontendRef
  IN /\ missing => v.check = "missing" /\ v.error.code = missingCode
     /\ (~missing /\ revoked) =>
          v.error = MeteorError(403, "Authorization token has been revoked")
     /\ (~missing /\ ~revoked /\ wrongKind) =>
          v.error = MeteorError(403, "Unauthorized to open non-webkey token.")
     /\ (~missing /\ ~revoked /\ ~wrongKind /\ expired) =>
          v.check = "expires" /\ v.error = MeteorError(403, "Authorization token expired")
     /\ (~missing /\ ~revoked /\ ~wrongKind /\ ~expired /\ unusedExpired) =>
          /\ v.check = "expiresIfUnused"
          /\ v.error = MeteorError(403, "Authorization token expired")
     /\ (~missing /\ ~revoked /\ ~wrongKind /\ ~expired /\ ~unusedExpired /\ nonWebview) =>
          v.error = MeteorError(403, "ApiToken refers to a non-webview Capability.")
     /\ v.error = Ok <=>
          ~(missing \/ revoked \/ wrongKind \/ expired \/ unusedExpired \/ nonWebview)

\* the handler of slot r runs validateWebkey in this step
Validates(r) ==
  /\ req[r].pc = "idle"
  /\ req'[r].pc # "idle"
  /\ req'[r].kind \in {"api", "keepalive", "openToken"}
  /\ ~req'[r].fromCache

\* C5 as the code has it: validateWebkey fails on the first check that
\* applies, in the order record missing (403 Invalid authorization token),
\* revoked, owner kind not webkey, expires passed, expiresIfUnused passed,
\* non-webview object, and returns normally only when none applies.
C5_CheckOrder ==
  [][\A r \in Reqs :
       Validates(r) =>
         ChecksInOrder(ApiTokens[req'[r].token], now, req'[r].verdict, 403)]_vars

\* a token that passes every check up to the last and is rejected for being
\* bound to a non-webview object
C5_Witness ==
  \E r \in Reqs :
    /\ req[r].pc = "done"
    /\ req[r].kind = "keepalive"
    /\ req[r].verdict.check = "object"
    /\ req[r].result.code = 403

\* C5 as stated: the same order, a missing record answered NotFound (404)
C5_MissingIsNotFound ==
  [][\A r \in Reqs :
       Validates(r) =>
         ChecksInOrder(ApiTokens[req'[r].token], now, req'[r].verdict, 404)]_vars

\* C6: once a validation without refresh deadline has used a token before
\* its expiresIfUnused time, the field stays cleared and no later validation
\* of the token fails as expired on account of expiresIfUnused.
C6_UsedTokenNeverExpiresUnused ==
  /\ \A t \in used : ApiTokens[t].exists => ApiTokens[t].expiresIfUnused = NoDate
  /\ \A r \in Reqs :
       (req[r].pc = "done" /\ req[r].afterUse) => req[r].verdict.check # "expiresIfUnused"

\* the Proxy objects bound to hostId h on which close() was not called
Unclosed(h) == {i \in DOMAIN proxies : proxies[i].hostId = h /\ ~proxies[i].closed}

\* C7: at any time at most one un-closed Proxy object is bound to a hostId.
C7_OneProxyPerHost ==
  \A h \in Hosts : Cardinality(Unclosed(h)) <= 1

\* C8: a getProxyForHostId creation whose table slot was cleared while it
\* was in flight does not install its Proxy and fails with 403 "Session was
\* concurrently closed.", whatever other requests for the hostId do.
C8_ClearedCreationFails ==
  \A r \in Reqs :
    (req[r].pc = "done" /\ req[r].kind = "host" /\ req[r].cleared)
    => req[r].result = MeteorError(403, "Session was concurrently closed.")

\* C9: once the removal of a Session has been observed, proxiesByHostId
\* maps its hostId to no Proxy.
C9_NoProxyWithoutSession ==
  \A h \in Hosts :
    (~Sessions[h].exists /\ h \notin sessionEvents /\ watcher.pc # "remove")
    => proxiesByHostId[h] \in {NoKey, NullProxy}

\* proxy p is session-bound / API-bound
SessionBound(p) == Truthy(p.sessionId) /\ Truthy(p.hostId) /\ ~p.isApi
ApiBound(p) == p.isApi /\ ~Truthy(p.sessionId) /\ ~Truthy(p.hostId)

\* C10: every constructed Proxy is session-bound or API-bound and never
\* both, at construction and after every later operation; the constructor
\* throws exactly for the other argument combinations.
C10_ProxyMode ==
  /\ \A i \in DOMAIN proxies : SessionBound(proxies[i]) # ApiBound(proxies[i])
  /\ \A r \in Reqs :
       (req[r].pc = "done" /\ req[r].kind = "new") =>
         LET args == [sessionId |-> req[r].sessionId, hostId |-> req[r].host,
                      isApi |-> req[r].isApi]
         IN /\ req[r].result = Ok <=> (SessionBound(args) \/ ApiBound(args))
            /\ req[r].result = Ok =>
                 /\ proxies[req[r].proxy].isApi = req[r].isApi
                 /\ Truthy(proxies[req[r].proxy].sessionId) = Truthy(req[r].sessionId)

\* an API-bound Proxy that has served a request and has been closed
C10_Witness ==
  \E i \in DOMAIN proxies :
    /\ ApiBound(proxies[i])
    /\ proxies[i].hasLoaded
    /\ proxies[i].closed

\* C11: close() is idempotent: on every state a Proxy can be in, a second
\* close() right after a first changes nothing and finds no handle and no
\* socket left to close, and one close() destroys each socket at most once.
C11_CloseIdempotent ==
  \A i \in DOMAIN proxies :
    LET once == Close(proxies[i]) IN
    /\ Close(once) = once
    /\ HandlesClosed(once) = {}
    /\ once.websockets = {}
    /\ \A s \in 0..(MaxSockets - 1) : Destroys(proxies[i], s) <= 1

\* C12: ApiSessionProxies.get. A get on an entry that sits only in the old
\* bucket returns it, removes it from the old bucket and inserts it in the new
\* one; a get on an entry of the new bucket returns it and changes nothing; a
\* get on a key in neither bucket returns null and changes nothing; after any
\* hit the entry is in the new bucket.
C12_Get ==
  [][\A r \in Reqs, t \in Tokens, p \in Params :
       (req[r].pc = "idle" /\ req'[r].kind = "api" /\ req'[r].token = t) =>
         LET k == <<t, p>>
             onlyOld == newBucket[k] = NullProxy /\ oldBucket[k] # NullProxy
             inNew == newBucket[k] # NullProxy
             entry == IF inNew THEN newBucket[k] ELSE oldBucket[k]
         IN /\ onlyOld =>
                 /\ req'[r].fromCache
                 /\ req'[r].proxy \in {entry, NullProxy}
                 /\ oldBucket' = [oldBucket EXCEPT ![k] = NullProxy]
                 /\ newBucket' = [newBucket EXCEPT ![k] = entry]
            /\ inNew =>
                 /\ req'[r].fromCache
                 /\ req'[r].proxy \in {entry, NullProxy}
                 /\ UNCHANGED <<newBucket, oldBucket>>
            /\ (~onlyOld /\ ~inNew) =>
                 /\ ~req'[r].fromCache
                 /\ UNCHANGED <<newBucket, oldBucket>>
            /\ req'[r].fromCache => newBucket'[k] = entry
    ]_vars

\* a get found its entry in the old bucket only and moved it
C12_Witness ==
  \E r \in Reqs :
    /\ req[r].kind = "api" /\ req[r].pc = "done" /\ req[r].fromCache
    /\ req[r].promoted
    /\ req[r].proxy # NullProxy

\* a step of the sweep that is not a stuttering step
SweepStep == req' = req /\ oldBucket' # oldBucket

\* C13: on each sweep every old-bucket entry whose Proxy has no open
\* WebSocket is closed and dropped, every old-bucket entry whose Proxy has an
\* open WebSocket is kept and get still finds it, and afterwards the entries
\* of the previous new bucket are in the old bucket and the new bucket is empty.
C13_Sweep ==
  [][SweepStep =>
       /\ \A k \in Keys :
            (oldBucket[k] # NullProxy /\ proxies[oldBucket[k]].websockets = {}) =>
              /\ proxies'[oldBucket[k]].closed
              /\ \A k2 \in Keys : oldBucket'[k2] # oldBucket[k] /\ newBucket'[k2] # oldBucket[k]
       /\ \A k \in Keys :
            (oldBucket[k] # NullProxy /\ proxies[oldBucket[k]].websockets # {}) =>
              /\ ~proxies'[oldBucket[k]].closed
              /\ Get(newBucket', oldBucket', k[1], k[2]).proxy = oldBucket[k]
       /\ \A k \in Keys : newBucket[k] # NullProxy => oldBucket'[k] = newBucket[k]
       /\ newBucket' = EmptyBucket
    ]_vars

\* C14: the process self-terminates exactly when two health checks in a row
\* have found their ping unanswered; failures separated by an answered ping
\* are not counted together.
C14_AbortOnTwoConsecutive ==
  backend.aborted <=> backend.unanswered >= 2

\* C15: after a reconnect every backend call made on behalf of a Proxy uses
\* the connection installed in globalBackend: no invocation of handleRequest
\* goes through a handle obtained from a closed connection.
C15_NoStaleHandle ==
  \A r \in Reqs : ~req[r].stale

\* C16: a run of gcSessions removes exactly the Sessions whose timestamp is
\* more than TIMEOUT_MS old, so a Session kept alive at shorter intervals is
\* never removed; and once the removal of a Session has been observed no
\* un-closed Proxy of its host is left in proxiesByHostId.
C16_IdleSessionCollected ==
  /\ [][(\E h \in Hosts : Sessions[h].exists /\ ~Sessions'[h].exists) =>
          \A h \in Hosts :
            Sessions[h].exists =>
              IF now - Sessions[h].timestamp > TIMEOUT_MS
              THEN ~Sessions'[h].exists /\ h \in sessionEvents'
              ELSE Sessions'[h] = Sessions[h]
       ]_vars
  /\ [](\A h \in Hosts :
          (~Sessions[h].exists /\ h \notin sessionEvents) =>
            proxiesByHostId[h] \notin Unclosed(h))

\* C17: a session-host request that waited for its Session to be restored
\* ends in exactly one of two ways, with a Proxy or with the 504 of the
\* timer, and once it has ended neither its observer nor its timer is active.
C17_RestoreWait ==
  \A r \in Reqs :
    (req[r].pc = "done" /\ req[r].kind = "host" /\ req[r].waited) =>
      /\ \/ req[r].result = Dispatched /\ req[r].proxy # NullProxy
         \/ req[r].result = MeteorError(504, "Requested session that no longer exists")
      /\ ~req[r].timer
      /\ ~req[r].observer

\* the request carries exactly one sandstorm-sid cookie, with value sessionId
Authenticated(cookies, sessionId) ==
  LET sids == {i \in 1..Len(cookies) : cookies[i].key = "sandstorm-sid"} IN
  Cardinality(sids) = 1 /\ \A i \in sids : cookies[i].value = sessionId

\* C18: on a session-bound Proxy a request that is not the /_sandstorm-init
\* handshake and does not carry exactly one sandstorm-sid cookie equal to the
\* Proxy's sessionId issues no session negotiation and no RPC, fails with 403
\* (a WebSocket upgrade: its socket is destroyed) and leaves the Session
\* record unchanged.
C18_CookieRequired ==
  \A r \in Reqs :
    LET q == req[r] IN
    (/\ q.kind \in {"request", "streaming", "upgrade"}
     /\ Truthy(proxies[q.proxy].sessionId)
     /\ ~q.init
     /\ ~Authenticated(q.request.cookies, proxies[q.proxy].sessionId)) =>
      /\ q.outcomes = <<>>
      /\ ~q.touched
      /\ q.pc = "done" =>
           IF q.kind = "upgrade" THEN q.result.reason = "socket.destroy"
           ELSE q.result.code = 403

\* some Set-Cookie header of the list sets sandstorm-sid
SetsSessionCookie(headers) ==
  \E i \in 1..Len(headers) : headers[i][1] = "sandstorm-sid"

\* C19: a response sets sandstorm-sid only when it is the answer of the
\* /_sandstorm-init handler to a request whose sessionid equals the Proxy's
\* sessionId and whose path is a valid relative path.
C19_CookieOnlyFromInit ==
  \A r \in Reqs :
    LET q == req[r] IN
    SetsSessionCookie(q.setCookie) =>
      /\ q.init
      /\ q.request.url.pathname = "/_sandstorm-init"
      /\ q.request.url.sessionid = proxies[q.proxy].sessionId
      /\ LET path == IF q.request.url.path = <<>> THEN <<"/">> ELSE q.request.url.path IN
         Head(path) = "/" /\ (Len(path) >= 2 => path[2] # "/")

\* C20: matchWildcardHost(host) returns the middle segment of the port-stripped
\* host exactly when that host starts with the wildcard prefix, ends with the
\* wildcard suffix and has a middle segment over [a-z0-9-], and null otherwise;
\* matchWildcardHost(makeWildcardHost(id)) = id for every id over [a-z0-9-].
C20_WildcardHost ==
  \A r \in Reqs :
    LET q == req[r]
        prefix == q.wildcardHost[1]
        suffix == splitFirst(q.wildcardHost[2], ":")
        h == splitFirst(q.hostname, ":")
        n == Len(h)
        fits == /\ n >= Len(prefix) + Len(suffix)
                /\ SubSeq(h, 1, Len(prefix)) = prefix
                /\ SubSeq(h, n - Len(suffix) + 1, n) = suffix
        middle == SubSeq(h, Len(prefix) + 1, n - Len(suffix))
    IN /\ q.kind = "match" =>
            IF fits /\ \A i \in 1..Len(middle) : middle[i] \in IdChars
            THEN q.id = Id(middle)
            ELSE q.id = NullId
       /\ q.kind = "roundTrip" => q.id = Id(q.hostname)

\* C21: a bearer-token request that misses the cache and finds a revoked token
\* document is answered 403 "Authorization token has been revoked" in that one
\* step: no Proxy is built or cached, the token documents are left alone and
\* the request is never dispatched to a Proxy (no call reaches a grain).
C21_RevokedTokenRejected ==
  [][\A r \in Reqs :
       (/\ req[r].pc = "idle"
        /\ req'[r].kind = "api"
        /\ ~req'[r].fromCache
        /\ ApiTokens[req'[r].token].exists
        /\ ApiTokens[req'[r].token].revoked)
       => /\ req'[r].pc = "done"
          /\ req'[r].result = MeteorError(403, "Authorization token has been revoked")
          /\ req'[r].proxy = NullProxy
          /\ proxies' = proxies
          /\ newBucket' = newBucket
          /\ oldBucket' = oldBucket
          /\ ApiTokens' = ApiTokens]_vars

C21_Witness ==
  \E r \in Reqs :
    /\ req[r].kind = "api"
    /\ req[r].pc = "done"
    /\ ~req[r].fromCache
    /\ ApiTokens[req[r].token].revoked
    /\ req[r].result = MeteorError(403, "Authorization token has been revoked")

\* C22: a WebSocket upgrade without a Sec-WebSocket-Key header never gets
\* anything written to its socket (no 101 response), is never retried, ends
\* with the socket destroyed, and the step that handles it leaves the Proxy's
\* websockets set as it was.
C22_MissingKey ==
  /\ [][\A r \in Reqs :
          (/\ req[r].pc = "upgrade"
           /\ ~req[r].request.secWebSocketKey
           /\ req'[r] # req[r])
          => /\ req'[r].pc = "done"
             /\ req'[r].result.reason = "socket.destroy"
             /\ proxies'[req[r].proxy].websockets = proxies[req[r].proxy].websockets]_vars
  /\ [](\A r \in Reqs :
          (req[r].kind = "upgrade" /\ ~req[r].request.secWebSocketKey)
          => /\ req[r].receiver.written = <<>>
             /\ req[r].socket = NoKey
             /\ req[r].pc \in {"upgrade", "done"})

C22_Witness ==
  \E r \in Reqs :
    /\ req[r].kind = "upgrade"
    /\ req[r].pc = "done"
    /\ ~req[r].request.secWebSocketKey
    /\ makeContext(proxies[req[r].proxy], req[r].request) = NoError
    /\ req[r].result.reason = "socket.destroy"

\* C23: whatever is on a client socket starts with the 101 response, which is
\* written only once openWebSocket has resolved; what the application sent
\* before that follows the 101 response in the order sent; a call the
\* application rejects leaves the socket without a 101 response and without
\* application bytes.
C23_HandshakeFirst ==
  \A r \in Reqs :
    req[r].kind = "upgrade" =>
      LET written == req[r].receiver.written
          answered == /\ req[r].pc = "done"
                      /\ req[r].result.code = 101
                      /\ req[r].outcomes[Len(req[r].outcomes)] = "ok"
      IN /\ written # <<>> => answered /\ written[1] = "101 Switching Protocols"
         /\ answered =>
              /\ Len(written) >= 1 + Len(req[r].sent)
              /\ SubSeq(written, 1, 1 + Len(req[r].sent))
                   = <<"101 Switching Protocols">> \o req[r].sent
         /\ ~answered => written = <<>>

C23_Witness ==
  \E r \in Reqs :
    /\ req[r].kind = "upgrade"
    /\ req[r].pc = "done"
    /\ req[r].result.code = 101
    /\ req[r].outcomes = <<"disconnected", "ok">>
    /\ req[r].sent = <<"m1", "m2">>
    /\ req[r].receiver.written = <<"101 Switching Protocols", "m1", "m2", "m2">>

\* C24: this.websockets of a Proxy holds each client socket under one index
\* only (also after a retried upgrade) and holds no socket that has emitted
\* "close"; after close() it is empty.
C24_WebsocketsExact ==
  \A i \in DOMAIN proxies :
    /\ \A v \in proxies[i].websockets, w \in proxies[i].websockets :
         v.socket = w.socket => v = w
    /\ \A w \in proxies[i].websockets : w.socket \notin proxies[i].closedSockets
    /\ Close(proxies[i]).websockets = {}

\* the outcomes of the non-streaming calls a request made after its streaming
\* call was rejected as unimplemented
FallbackCalls(q) ==
  LET at == {i \in 1..Len(q.outcomes) : q.outcomes[i] = "unimplemented"} IN
  IF at = {} THEN <<>>
  ELSE SelectSeq(SubSeq(q.outcomes, Max(at) + 1, Len(q.outcomes)),
                 LAMBDA o : o \in BackendOutcomes)

\* C25: a request starts in streaming mode exactly when it is a POST or PUT
\* whose Content-Length is absent or above 1 MiB; a request whose streaming
\* call was rejected as unimplemented ends after exactly one non-streaming
\* call, and with that call's response.
C25_StreamingFallback ==
  \A r \in Reqs :
    LET q == req[r] IN
    /\ (q.pc \in {"stream", "handle"} /\ q.outcomes = <<>>) =>
         (q.pc = "stream" <=>
            /\ q.request.method \in {"POST", "PUT"}
            /\ (q.request.contentLength = NoContentLength
                \/ q.request.contentLength > 1024 * 1024))
    /\ (q.pc = "done" /\ \E i \in 1..Len(q.outcomes) : q.outcomes[i] = "unimplemented") =>
         /\ Len(FallbackCalls(q)) = 1
         /\ FallbackCalls(q)[1] = "ok" => q.result = Ok

\* C27: a request whose method handleRequest has no session call for is
\* answered with a 4xx status, is never retried and makes no call to the
\* session.
C27_UnsupportedMethod ==
  \A r \in Reqs :
    (req[r].kind = "request" /\ req[r].request.method \notin Methods) =>
      /\ req[r].outcomes = <<>>
      /\ req[r].retryCount = 0
      /\ req[r].pc # "continueGrain"
      /\ req[r].pc = "done" => req[r].result.code \in 400..499

\* C26: once the client's connection has closed, no call made to the
\* application for that request is still pending and its response-stream
\* promise is not left pending either.
C26_CancelOnClose ==
  \A r \in Reqs :
    req[r].clientClosed =>
      /\ req[r].call # "pending"
      /\ req[r].responseStream # "pending"

\* C28: a keep-alive request on a token with an idle expiry that passes
\* validateWebkey sets expiresIfUnused to now + millis, never to an earlier
\* time than it held, and is answered 200; a keep-alive request that fails
\* leaves the token documents as they were and is answered with the
\* validator's error; no keep-alive request touches a Proxy or the cache.
C28_Keepalive ==
  [][\A r \in Reqs :
       (req'[r].kind = "keepalive" /\ req'[r].pc = "done" /\ req[r].pc # "done") =>
         /\ proxies' = proxies
         /\ newBucket' = newBucket
         /\ oldBucket' = oldBucket
         /\ req'[r].proxy = NullProxy
         /\ req'[r].result = req'[r].verdict.error
         /\ req'[r].result # Ok => ApiTokens' = ApiTokens
         /\ (req'[r].result = Ok /\ req[r].pc = "update") =>
              /\ ApiTokens'[req[r].token].expiresIfUnused = req[r].refreshedExpiration
              /\ ApiTokens'[req[r].token].expiresIfUnused >= req[r].tokenInfo.expiresIfUnused]_vars

\* C29: the response to an OPTIONS request on the API host has
\* Access-Control-Allow-Origin '*'; its Access-Control-Allow-Methods lists
\* GET, HEAD, POST, PUT, PATCH and DELETE, and the requested method too when
\* one was requested that is not among the six, and nothing else and nothing
\* twice; its Access-Control-Allow-Headers is the requested header list; the
\* headers are there while the token is checked and after the request was
\* answered, whatever the answer.
C29_Preflight ==
  \A r \in Reqs :
    (req[r].request.kind = "api" /\ req[r].request.method = "OPTIONS") =>
      LET h == req[r].headers
          requested == req[r].request.requestedMethod
          six == {"GET", "HEAD", "POST", "PUT", "PATCH", "DELETE"}
          extra == IF requested \in {NULL, ""} THEN {} ELSE {requested} \ six
      IN /\ {"Access-Control-Allow-Origin", "Access-Control-Allow-Methods"} \subseteq DOMAIN h
         /\ h["Access-Control-Allow-Origin"] = <<"*">>
         /\ LET allowed == h["Access-Control-Allow-Methods"] IN
              /\ {allowed[i] : i \in 1..Len(allowed)} = six \cup extra
              /\ Len(allowed) = Cardinality(six \cup extra)
         /\ req[r].request.requestedHeaders \notin {NULL, ""} =>
              /\ "Access-Control-Allow-Headers" \in DOMAIN h
              /\ h["Access-Control-Allow-Headers"] = <<req[r].request.requestedHeaders>>

\* an OPTIONS request asking for PROPFIND was refused with the validator's
\* error and its response allows PROPFIND
C29_Witness ==
  \E r \in Reqs :
    /\ req[r].request.kind = "api" /\ req[r].request.method = "OPTIONS"
    /\ req[r].request.requestedMethod = "PROPFIND"
    /\ req[r].request.requestedHeaders = "authorization, content-type"
    /\ req[r].pc = "done" /\ req[r].result.code = 403
    /\ \E i \in 1..Len(req[r].headers["Access-Control-Allow-Methods"]) :
         req[r].headers["Access-Control-Allow-Methods"][i] = "PROPFIND"

\* C30: a response translated for a session-bound Proxy has a
\* Content-Security-Policy whose default-src is 'self' plus the WebSocket
\* origin of the grain's wildcard host, wss:// when ROOT_URL is https; its
\* sandbox directive is exactly allow-forms allow-scripts; it has the
\* directive referrer no-referrer; X-Content-Security-Policy and X-Webkit-CSP
\* carry the same value; X-Frame-Options is allow-from ROOT_URL.
C30_SessionCsp ==
  \A r \in Reqs :
    (req[r].kind = "translate" /\ req[r].pc = "done" /\ req[r].hostname # <<>>) =>
      LET h == req[r].headers
          csp == h["Content-Security-Policy"]
          grainHost == req[r].wildcardHost[1] \o req[r].hostname \o req[r].wildcardHost[2]
          ws == IF req[r].rootUrl.scheme = "https" THEN "wss" ELSE "ws"
          directive(name) == {csp[i] : i \in {j \in 1..Len(csp) : csp[j][1] = <<name>>}}
      IN /\ directive("default-src") =
              {<< <<"default-src">>, <<"'self'">>, <<ws, "://">> \o grainHost >>}
         /\ directive("sandbox") =
              {<< <<"sandbox">>, <<"allow-forms">>, <<"allow-scripts">> >>}
         /\ directive("referrer") = {<< <<"referrer">>, <<"no-referrer">> >>}
         /\ h["X-Content-Security-Policy"] = csp
         /\ h["X-Webkit-CSP"] = csp
         /\ h["X-Frame-Options"] =
              << <<"allow-from">>,
                 <<req[r].rootUrl.scheme, "://">> \o req[r].rootUrl.host \o <<"/">> >>

\* C31: the hasLoaded flag of a Session goes from false to true only in a
\* step in which a request on that session is answered successfully through
\* translateResponse, never in a step that ends a request with an error; it
\* never goes back to false; and a step that updates the flag is the first
\* setHasLoaded of some Proxy, whose own flag is never reset.
C31_HasLoaded ==
  [][/\ \A h \in Hosts :
          (Sessions[h].exists /\ Sessions'[h].exists) =>
            /\ Sessions[h].hasLoaded => Sessions'[h].hasLoaded
            /\ (~Sessions[h].hasLoaded /\ Sessions'[h].hasLoaded) =>
                 /\ \E r \in Reqs :
                      /\ req[r].pc # "done" /\ req'[r].pc = "done"
                      /\ req'[r].result = Ok
                      /\ req'[r].proxy \in DOMAIN proxies
                      /\ proxies[req'[r].proxy].sessionId = h
                 /\ \E id \in DOMAIN proxies :
                      /\ proxies[id].sessionId = h
                      /\ ~proxies[id].hasLoaded /\ proxies'[id].hasLoaded
      /\ \A id \in DOMAIN proxies : proxies[id].hasLoaded => proxies'[id].hasLoaded]_vars

\* C32: the handles of a Proxy are nested (a session only with a uiView, a
\* uiView only with a supervisor), and when maybeRetryAfterError installs
\* the supervisor handle that continueGrain returned, the Proxy holds no
\* handle at all: none is replaced without having been closed, and no
\* uiView or session obtained from an earlier supervisor handle stays in use.
C32_HandleNesting ==
  /\ [](\A id \in DOMAIN proxies :
          /\ proxies[id].session # NULL => proxies[id].uiView # NULL
          /\ proxies[id].uiView # NULL => proxies[id].supervisor # NULL)
  /\ [][\A r \in Reqs :
          (req[r].pc = "continueGrain" /\ req'[r].retryCount > req[r].retryCount) =>
            HandlesClosed(proxies[req[r].proxy]) = {}]_vars

\* how many times the request q reconnected and replayed: the calls that
\* ended with a disconnect and were followed by another call
Replays(q) ==
  Cardinality({i \in 1..(Len(q.outcomes) - 1) :
                 q.outcomes[i] = "disconnected" /\ q.outcomes[i + 1] # "notRestarted"})

\* C33: a request that requestHandler sent to handleRequestStreaming
\* reconnects and replays at most once over its whole handling, the calls
\* made after the fall-back to handleRequest included.
C33_OneReplayStreaming ==
  \A r \in Reqs :
    (req[r].pc = "done" /\ useStreaming(req[r].request)) => Replays(req[r]) <= 1

\* C34: a step of a request in flight on a Proxy on which close() has been
\* called gives that Proxy no supervisor, uiView or session handle and no
\* WebSocket, and makes no call to the grain.
C34_ClosedStaysClosed ==
  [][\A r \in Reqs :
       (/\ req[r].pc \in {"handle", "stream", "upgrade", "continueGrain"}
        /\ proxies[req[r].proxy].closed) =>
         /\ HandlesClosed(proxies'[req[r].proxy]) = {}
         /\ proxies'[req[r].proxy].websockets = {}
         /\ req'[r].outcomes = req[r].outcomes]_vars

\* C35: with two requests in flight on one Proxy and the grain going away
\* once, every request ends successfully and has been replayed at most once.
C35_ConcurrentRetry ==
  \A r \in Reqs :
    (req[r].pc = "done" /\ req[r].kind = "request") =>
      /\ req[r].result = Ok
      /\ Replays(req[r]) <= 1

\* C36: every API Proxy that getProxyForApiToken has put in the cache and
\* that has not been closed is an entry of the new or of the old bucket.
C36_CachedUntilClosed ==
  \A id \in DOMAIN proxies :
    (proxies[id].isApi /\ ~proxies[id].closed) =>
      \E k \in Keys : newBucket[k] = id \/ oldBucket[k] = id

\* C37: a cached Proxy that was put or found since the last sweep, and so is
\* in the new bucket, is not closed by the next sweep and stays cached; a
\* cached Proxy that was not, and has no open WebSocket, is closed and
\* dropped by that sweep, the second after its last access.
C37_TwoSweeps ==
  [][SweepStep =>
       \A id \in DOMAIN proxies :
         /\ (~proxies[id].closed /\ \E k \in Keys : newBucket[k] = id) =>
              /\ ~proxies'[id].closed
              /\ \E k \in Keys : oldBucket'[k] = id
         /\ (/\ ~proxies[id].closed
             /\ \E k \in Keys : oldBucket[k] = id
             /\ \A k \in Keys : newBucket[k] # id
             /\ proxies[id].websockets = {}) =>
              /\ proxies'[id].closed
              /\ \A k \in Keys : oldBucket'[k] # id /\ newBucket'[k] # id
    ]_vars

\* C38: a getProxyForHostId call that ends without having installed a Proxy
\* leaves no entry for its hostId in proxiesByHostId, and whenever no call
\* is in progress and every change of the collections has been observed,
\* every key of proxiesByHostId is the host of an existing Session.
C38_NoPlaceholderLeft ==
  /\ [][\A r \in Reqs :
          (/\ req[r].kind = "host" /\ req[r].pc # "done"
           /\ req'[r].pc = "done" /\ req'[r].proxy = NullProxy) =>
            proxiesByHostId'[req[r].host] = NoKey]_vars
  /\ []((/\ \A r \in Reqs : req[r].pc \in {"idle", "done"}
          /\ sessionEvents = {} /\ tokenEvents = {} /\ watcher.pc = "idle") =>
          \A h \in Hosts : proxiesByHostId[h] # NoKey => Sessions[h].exists)

\* C39: a validateWebkey call that throws leaves the token document as it
\* was: whichever handler ran it, the step on which the call fails changes
\* nothing in ApiTokens; in particular a token with objectId or frontendRef
\* and an expiresIfUnused in the future is rejected with that field neither
\* cleared nor refreshed.
C39_FailedValidateKeepsToken ==
  [][\A r \in Reqs :
       (/\ req[r].pc \in {"idle", "update"}
        /\ req'[r].pc = "done"
        /\ req'[r].kind \in {"api", "keepalive", "openToken"}
        /\ ~req'[r].fromCache
        /\ req'[r].verdict.error # Ok
        /\ req'[r].result = req'[r].verdict.error) =>
          ApiTokens' = ApiTokens]_vars

\* the token an Authorization header carries, whatever the host: the bearer
\* token, or the password of a basic authorization
SuppliedToken(authorization) ==
  IF authorization.scheme \in {"Bearer", "bearer"} THEN authorization.token
  ELSE IF authorization.scheme = "Basic" /\ Len(authorization.parts) >= 2
  THEN authorization.parts[2]
  ELSE NULL

\* the request record of slot r in the next state is that of a request on
\* the same host with the same method and Origin that carried no
\* Authorization header and was answered 200, 401 or 403 without a token
AnsweredAsWithoutToken(r) ==
  \E code \in {200, 401, 403} :
    [req'[r] EXCEPT !.request.authorization = NoAuthorization] =
      Finish([IdleReq EXCEPT
                !.kind = "noToken",
                !.request = [NoRequest EXCEPT !.kind = "api",
                                             !.method = req'[r].request.method,
                                             !.origin = req'[r].request.origin,
                                             !.hostId = req'[r].request.hostId],
                !.headers = apiHostHeaders(req'[r].request.method, NULL, NULL)],
             IF code = 200 THEN Ok
             ELSE [code |-> code, reason |-> "Missing or invalid authorization header."])

====
